---- MODULE Spec2Model ----
(***************************************************************************)
(* A model of stormindexer: the indexer (Index, Reindex) working on a     *)
(* filesystem tree through filepath.Walk, the SQLite store it writes to   *)
(* (tables `indexes` and `files`), and the syncer (CompareIndexes).       *)
(***************************************************************************)
EXTENDS Integers, Sequences, FiniteSets, TLC

VARIABLES
    fs,       \* the filesystem: path -> node (absent, file or directory)
    files,    \* table `files`: a set of rows, UNIQUE(path, index_id)
    indexes,  \* table `indexes`: id -> row
    now,      \* the clock read by time.Now(), one tick per operation
    fsOps,    \* how many filesystem changes have happened
    faults,   \* how many calls the store has rejected
    budget,   \* the bounds of the behaviour: runs, filesystem changes, faults
    ret,      \* what the last operation returned
    run       \* the start of the run of Index or Reindex under way

vars == <<fs, files, indexes, now, fsOps, faults, budget, ret, run>>

-----------------------------------------------------------------------------
(* Bounds of the model *)

\* clock ticks in one second: mtimes 0..TicksPerSecond-1 share second 0
TicksPerSecond == 2
\* the largest modification time a filesystem operation sets
MaxMTime == 2
\* the number of operations of the indexer explored in one behaviour
MaxRuns == 3
\* the number of filesystem changes explored in one behaviour
MaxFsOps == 2
\* the number of store calls rejected in one behaviour
MaxFaults == 1
\* the same three bounds of the smaller specification SmallSpec
\* the bounds of the behaviours with one run and one rejected call
FaultyRuns == 1
FaultyFsOps == 1
FaultyFaults == 1
\* the seconds in a day of the model's clock
SecondsPerDay == 2
SmallRuns == 2
SmallFsOps == 1
SmallFaults == 0

-----------------------------------------------------------------------------
(* Names, paths and their order *)

\* a name is a sequence of characters, a path a sequence of names
nR == <<"r">>
nA == <<"a">>
nD == <<"d">>
nF == <<"f">>
nE == <<"e">>
nH == <<".", "h">>
\* the name of a hidden file
nHidden == <<".", "a">>

Root == <<nR>>
pA == <<nR, nA>>
pD == <<nR, nD>>
pDF == <<nR, nD, nF>>
pE == <<nR, nE>>
pH == <<nR, nH>>
pHF == <<nR, nH, nF>>
pHidden == <<nR, nHidden>>

Paths == {Root, pA, pD, pDF, pE, pH, pHF, pHidden}
\* the paths the filesystem operations of the model act on
WritePaths == {pA}
MkdirPaths == {pA, pE}
RemovePaths == {Root, pA, pD}
\* the permission changes of the model: an unreadable root, a directory
\* that cannot be listed, one whose entries cannot be stat-ed, an unreadable file
Chmods == {<<Root, "-wx">>, <<pD, "-wx">>, <<pD, "rw-">>, <<pDF, "-wx">>}
\* the paths whose upsert or delete the store may reject
FaultPaths == {pA}
NoPath == <<>>

\* the start of a run of Index or Reindex: the place of the main goroutine
\* (pc), the counting goroutine (counter: its place; next: the call of its
\* walk function due), totalFiles, the messages in countDone, the timer of
\* time.After, countingTimedOut, the progress bar made, and whether the main
\* goroutine received from countDone and read totalFiles
Run(op, cs, pc, counter, next, total, sent, timer, timedOut, bar, received, readTotal) ==
    [op |-> op, cs |-> cs, pc |-> pc, counter |-> counter, next |-> next,
     totalFiles |-> total, countDone |-> sent, timer |-> timer,
     countingTimedOut |-> timedOut, bar |-> bar, received |-> received,
     readTotal |-> readTotal]

\* no run has begun
NoRun == Run("none", FALSE, "idle", "none", 1, 0, 0, "unset", FALSE, "none", FALSE, FALSE)

\* the byte of a character, as far as the order of strings needs it
CharCode(c) ==
    CASE c = "." -> 46
      [] c = "/" -> 47
      [] c = "a" -> 97
      [] c = "d" -> 100
      [] c = "e" -> 101
      [] c = "f" -> 102
      [] c = "h" -> 104
      [] c = "r" -> 114
      [] c = "s" -> 115
      [] c = "t" -> 116
      [] c = " " -> 32
      [] c = "T" -> 84
      [] c = "A" -> 65
      [] c = "_" -> 95
      [] c = "b" -> 98
      [] c = "x" -> 120
      [] c = ":" -> 58
      [] c = "c" -> 99

RECURSIVE PathString(_)
\* the absolute path as a string of characters: "/" and the name, for each name
PathString(p) ==
    IF p = <<>> THEN <<>> ELSE <<"/">> \o Head(p) \o PathString(Tail(p))

RECURSIVE StrLess(_, _)
\* byte-wise order of strings, as sort.Strings and SQLite's BINARY collation
StrLess(s, t) ==
    IF t = <<>> THEN FALSE
    ELSE IF s = <<>> THEN TRUE
    ELSE IF Head(s) # Head(t) THEN CharCode(Head(s)) < CharCode(Head(t))
    ELSE StrLess(Tail(s), Tail(t))

\* filepath.Base: the last element of the path
Base(p) == p[Len(p)]

\* filepath.Dir: the path without its last element
Parent(p) == SubSeq(p, 1, Len(p) - 1)

\* filepath.Rel(root, path) for a path at or under root: "." for the root itself
Rel(root, p) ==
    IF p = root THEN << <<".">> >> ELSE SubSeq(p, Len(root) + 1, Len(p))

IsUnder(p, q) == Len(p) > Len(q) /\ SubSeq(p, 1, Len(q)) = q

RECURSIVE Flatten(_)
Flatten(ss) == IF ss = <<>> THEN <<>> ELSE Head(ss) \o Flatten(Tail(ss))

-----------------------------------------------------------------------------
(* The filesystem *)

Absent == [kind |-> "absent", data |-> <<>>, dsize |-> 0, mtime |-> 0, mode |-> "rwx"]

\* the contents written by the model: another byte, and one byte more
Contents == {<<2>>, <<1, 1>>}
MTimes == 0..MaxMTime
\* the size the filesystem reports for a directory
DirSizes == {0, 3}
\* the mode of a node is "rwx": usable; "-wx": cannot be read or listed;
\* or "rw-": a directory whose entries cannot be stat-ed

File(data, mtime) ==
    [kind |-> "file", data |-> data, dsize |-> 0, mtime |-> mtime, mode |-> "rwx"]
Dir(dsize, mtime) ==
    [kind |-> "dir", data |-> <<>>, dsize |-> dsize, mtime |-> mtime, mode |-> "rwx"]

\* os.FileInfo of a node
InfoSize(n) == IF n.kind = "dir" THEN n.dsize ELSE Len(n.data)
InfoIsDir(n) == n.kind = "dir"
InfoModTime(n) == n.mtime

\* time.Time.Unix(): the whole seconds of a time
Unix(t) == t \div TicksPerSecond

NoChecksum == <<>>
\* sha256 + hex of the bytes: a non-empty value, one per content
Sha256Hex(data) == <<"h">> \o data

CalculateChecksumOfAny(fsys, p) ==
    [err |-> "nil", sum |-> Sha256Hex(fsys[p].data)]

\* a checksum over the content and the modification time
CalculateChecksumWithTime(fsys, p) ==
    IF fsys[p].kind # "file" \/ fsys[p].mode # "rwx"
    THEN [err |-> "read", sum |-> NoChecksum]
    ELSE [err |-> "nil", sum |-> Sha256Hex(fsys[p].data \o <<fsys[p].mtime>>)]

\* models.CalculateChecksum: os.ReadFile, then the hash; an error when the
\* file cannot be read
CalculateChecksum(fsys, p) ==
    IF fsys[p].kind # "file" \/ fsys[p].mode # "rwx"
    THEN [err |-> "read", sum |-> NoChecksum]
    ELSE [err |-> "nil", sum |-> Sha256Hex(fsys[p].data)]

-----------------------------------------------------------------------------
(* filepath.Walk with the walk function of Index and Reindex *)

Event(p, info, err) == [path |-> p, info |-> info, err |-> err]

WalkFnHeadSkipsOnly(ev) ==
    IF ev.err # "nil" THEN "nil"
    ELSE IF Base(ev.path)[1] = "." THEN "skip"
    ELSE "visit"

\* The head of the walk functions: an entry reported with an error is
\* skipped, a hidden directory is pruned ("SkipDir"), a hidden file is
\* skipped ("skip"); anything else is visited.
WalkFnHead(ev) ==
    IF ev.err # "nil" THEN "nil"
    ELSE IF Base(ev.path)[1] = "."
         THEN IF InfoIsDir(ev.info) THEN "SkipDir" ELSE "skip"
    ELSE "visit"

RECURSIVE SortNames(_)
\* the paths of S, all in one directory, as a sequence sorted by name
SortNames(S) ==
    IF S = {} THEN <<>>
    ELSE LET m == CHOOSE x \in S : \A y \in S \ {x} : StrLess(Base(x), Base(y))
         IN  <<m>> \o SortNames(S \ {m})

\* readDirNames: the entries of a directory, sorted by name
ReadDirNames(fsys, p) ==
    SortNames({q \in DOMAIN fsys :
                 Len(q) > 1 /\ Parent(q) = p /\ fsys[q].kind # "absent"})

RECURSIVE walk(_, _)
\* filepath.walk: the calls of the walk function, in order
walk(fsys, p) ==
    LET info == fsys[p] IN
    IF ~InfoIsDir(info) THEN << Event(p, info, "nil") >>
    ELSE
      LET err == IF info.mode = "-wx" THEN "EACCES" ELSE "nil"
          e1 == Event(p, info, err)
          names == ReadDirNames(fsys, p)
          sub == [i \in 1..Len(names) |->
                    IF info.mode = "rw-"
                    THEN << Event(names[i], Absent, "EACCES") >>
                    ELSE walk(fsys, names[i])]
      IN  IF err # "nil" \/ WalkFnHead(e1) = "SkipDir"
          THEN << e1 >>
          ELSE << e1 >> \o Flatten(sub)

\* filepath.Walk: Lstat of the root, whose failure is handed to the walk
\* function like that of any other entry
Walk(fsys, root) ==
    IF fsys[root].kind = "absent"
    THEN << Event(root, Absent, "ENOENT") >>
    ELSE walk(fsys, root)

\* the calls in which the walk function gets past its head
Visited(fsys, root) ==
    SelectSeq(Walk(fsys, root), LAMBDA ev : WalkFnHead(ev) = "visit")

-----------------------------------------------------------------------------
(* The store *)

IndexID == "i1"

FileEntry(p, rel, size, mt, sum, id, scanned, isDir) ==
    [path |-> p, relative_path |-> rel, size |-> size, mod_time |-> mt,
     checksum |-> sum, index_id |-> id, last_scanned |-> scanned,
     is_directory |-> isDir]

SameKey(r, f) == r.path = f.path /\ r.index_id = f.index_id

UpsertFileReplacing(tbl, f) ==
    {r \in tbl : ~SameKey(r, f)} \cup {f}

\* DB.UpsertFile: INSERT ... ON CONFLICT(path, index_id) DO UPDATE SET size,
\* mod_time, checksum, last_scanned, is_directory
UpsertFile(tbl, f) ==
    IF \E r \in tbl : SameKey(r, f)
    THEN {IF SameKey(r, f)
          THEN [r EXCEPT !.size = f.size, !.mod_time = f.mod_time,
                         !.checksum = f.checksum,
                         !.last_scanned = f.last_scanned,
                         !.is_directory = f.is_directory]
          ELSE r : r \in tbl}
    ELSE tbl \cup {f}

RECURSIVE OrderByPath(_)
\* ORDER BY path: the rows of S, of one index, as a sequence sorted by path
OrderByPath(S) ==
    IF S = {} THEN <<>>
    ELSE LET m == CHOOSE x \in S : \A y \in S \ {x} :
                     StrLess(PathString(x.path), PathString(y.path))
         IN  <<m>> \o OrderByPath(S \ {m})

\* DB.ListFiles: the rows of an index, ORDER BY path
ListFiles(tbl, id) == OrderByPath({r \in tbl : r.index_id = id})

\* DB.GetFile: the rows with this path and index (none: sql.ErrNoRows)
GetFile(tbl, p, id) == {r \in tbl : r.path = p /\ r.index_id = id}

\* DB.DeleteFile
DeleteFile(tbl, p, id) == {r \in tbl : ~(r.path = p /\ r.index_id = id)}

RECURSIVE DeleteFiles(_, _, _)
\* DB.DeleteFile for each path of a set
DeleteFiles(tbl, ps, id) ==
    IF ps = {} THEN tbl
    ELSE LET p == CHOOSE x \in ps : TRUE
         IN  DeleteFiles(DeleteFile(tbl, p, id), ps \ {p}, id)

RECURSIVE SumSize(_)
SumSize(S) ==
    IF S = {} THEN 0
    ELSE LET r == CHOOSE x \in S : TRUE IN r.size + SumSize(S \ {r})

UpdateIndexStatsSumAll(idx, tbl, id, t) ==
    [i \in DOMAIN idx |->
        IF i = id
        THEN [idx[i] EXCEPT
                !.total_files = Cardinality({r \in tbl : r.index_id = id}),
                !.total_size = SumSize({r \in tbl : r.index_id = id}),
                !.last_sync = t]
        ELSE idx[i]]

\* DB.UpdateIndexStats: COUNT(*) of the index's rows, SUM(size) of those
\* that are no directories, last_sync = now; no row changes when the index
\* does not exist
UpdateIndexStats(idx, tbl, id, t) ==
    [i \in DOMAIN idx |->
        IF i = id
        THEN [idx[i] EXCEPT
                !.total_files = Cardinality({r \in tbl : r.index_id = id}),
                !.total_size = SumSize({r \in tbl : r.index_id = id /\ ~r.is_directory}),
                !.last_sync = t]
        ELSE idx[i]]

DeleteIndexKeepingFiles(idx, tbl, id) ==
    IF id \in DOMAIN idx
    THEN [idx |-> [i \in DOMAIN idx \ {id} |-> idx[i]], tbl |-> tbl, err |-> "nil"]
    ELSE [idx |-> idx, tbl |-> tbl, err |-> "index not found"]

\* DB.DeleteIndex: DELETE FROM indexes WHERE id = ?, the rows of files that
\* refer to the index going with it (ON DELETE CASCADE); no row affected is
\* an error
DeleteIndex(idx, tbl, id) ==
    IF id \in DOMAIN idx
    THEN [idx |-> [i \in DOMAIN idx \ {id} |-> idx[i]],
          tbl |-> {r \in tbl : r.index_id # id},
          err |-> "nil"]
    ELSE [idx |-> idx, tbl |-> tbl, err |-> "index not found"]

Index0(root) ==
    [root_path |-> root, total_files |-> 0, total_size |-> 0, last_sync |-> 0]

-----------------------------------------------------------------------------
(* Store failures: the call of the store that is rejected in a run, if any *)

NoFault == [call |-> "none", path |-> NoPath]
Faults ==
    {NoFault, [call |-> "list", path |-> NoPath], [call |-> "stats", path |-> NoPath]}
    \cup {[call |-> c, path |-> p] : c \in {"upsert", "delete"}, p \in FaultPaths}

Rejected(fault, call, p) == fault.call = call /\ fault.path = p

-----------------------------------------------------------------------------
(* Indexer.Index *)

NoStats == [added |-> 0, updated |-> 0, removed |-> 0,
            files |-> 0, directories |-> 0, size |-> 0]

Ret(op, err, p, stats, cs) ==
    [op |-> op, err |-> err, path |-> p, stats |-> stats, checksums |-> cs]

\* the entry Index builds for a visited object
IndexEntry(fsys, root, id, ev, cs, t) ==
    FileEntry(ev.path, Rel(root, ev.path), InfoSize(ev.info), InfoModTime(ev.info),
              IF ~InfoIsDir(ev.info) /\ cs
              THEN CalculateChecksum(fsys, ev.path).sum ELSE NoChecksum,
              id, t, InfoIsDir(ev.info))

RECURSIVE IndexWalk(_, _, _, _, _, _, _, _)
\* the walk of Index over the visited objects evs: the table and the
\* statistics after it, and the path whose upsert was rejected, if any
IndexWalk(fsys, root, id, evs, cs, t, fault, acc) ==
    IF evs = <<>> THEN acc
    ELSE
      LET ev == Head(evs) IN
      IF Rejected(fault, "upsert", ev.path)
      THEN [acc EXCEPT !.failed = ev.path]
      ELSE IndexWalk(fsys, root, id, Tail(evs), cs, t, fault,
             [acc EXCEPT
                !.tbl = UpsertFile(acc.tbl, IndexEntry(fsys, root, id, ev, cs, t)),
                !.stats.directories = @ + (IF InfoIsDir(ev.info) THEN 1 ELSE 0),
                !.stats.files = @ + (IF InfoIsDir(ev.info) THEN 0 ELSE 1),
                !.stats.size = @ + (IF InfoIsDir(ev.info) THEN 0 ELSE InfoSize(ev.info))])

IndexResultStatsAnyway(fsys, tbl, idx, root, id, cs, t, fault) ==
    LET w == IndexWalk(fsys, root, id, Visited(fsys, root), cs, t, fault,
                       [tbl |-> tbl, stats |-> NoStats, failed |-> NoPath])
    IN  IF w.failed # NoPath
        THEN [tbl |-> w.tbl, idx |-> UpdateIndexStats(idx, w.tbl, id, t),
              rejected |-> 1,
              ret |-> Ret("index", "upsert", w.failed, w.stats, cs)]
        ELSE [tbl |-> w.tbl, idx |-> UpdateIndexStats(idx, w.tbl, id, t),
              rejected |-> 0,
              ret |-> Ret("index", "nil", NoPath, w.stats, cs)]

\* Indexer.Index as a function of the state: the new tables and the result
IndexResult(fsys, tbl, idx, root, id, cs, t, fault) ==
    LET w == IndexWalk(fsys, root, id, Visited(fsys, root), cs, t, fault,
                       [tbl |-> tbl, stats |-> NoStats, failed |-> NoPath])
    IN  IF w.failed # NoPath
        THEN [tbl |-> w.tbl, idx |-> idx, rejected |-> 1,
              ret |-> Ret("index", "upsert", w.failed, w.stats, cs)]
        ELSE IF Rejected(fault, "stats", NoPath)
        THEN [tbl |-> w.tbl, idx |-> idx, rejected |-> 1,
              ret |-> Ret("index", "stats", NoPath, w.stats, cs)]
        ELSE [tbl |-> w.tbl, idx |-> UpdateIndexStats(idx, w.tbl, id, t),
              rejected |-> 0,
              ret |-> Ret("index", "nil", NoPath, w.stats, cs)]

-----------------------------------------------------------------------------
(* Indexer.Reindex *)

\* existingMap: the listed rows by path
ExistingAt(existing, p) == {r \in existing : r.path = p}

NeedsUpdateSizeOnly(existing, ev) ==
    \/ ExistingAt(existing, ev.path) = {}
    \/ \E r \in ExistingAt(existing, ev.path) : r.size # InfoSize(ev.info)

\* needsUpdate with the modification times compared as they are
NeedsUpdateExactTime(existing, ev) ==
    \/ ExistingAt(existing, ev.path) = {}
    \/ \E r \in ExistingAt(existing, ev.path) :
          \/ r.size # InfoSize(ev.info)
          \/ r.mod_time # InfoModTime(ev.info)

\* needsUpdate: no existing entry, or another size, or another second of
\* the modification time
NeedsUpdate(existing, ev) ==
    \/ ExistingAt(existing, ev.path) = {}
    \/ \E r \in ExistingAt(existing, ev.path) :
          \/ r.size # InfoSize(ev.info)
          \/ Unix(r.mod_time) # Unix(InfoModTime(ev.info))

\* the entry Reindex builds for a visited object that needs an update
ReindexEntry(fsys, existing, root, id, ev, cs, t) ==
    LET old == ExistingAt(existing, ev.path)
        exists == old # {}
        sum == IF ~InfoIsDir(ev.info)
                  /\ (cs \/ ~exists \/ \E r \in old : r.checksum = NoChecksum)
               THEN CalculateChecksum(fsys, ev.path).sum
               ELSE IF exists THEN (CHOOSE r \in old : TRUE).checksum
               ELSE NoChecksum
    IN  FileEntry(ev.path, Rel(root, ev.path), InfoSize(ev.info),
                  InfoModTime(ev.info), sum, id, t, InfoIsDir(ev.info))

RECURSIVE ReindexWalk(_, _, _, _, _, _, _, _, _)
\* the walk of Reindex over the visited objects evs
ReindexWalk(fsys, existing, root, id, evs, cs, t, fault, acc) ==
    IF evs = <<>> THEN acc
    ELSE
      LET ev == Head(evs)
          exists == ExistingAt(existing, ev.path) # {}
          found == [acc EXCEPT !.foundPaths = @ \cup {ev.path}]
      IN
      IF ~NeedsUpdate(existing, ev)
      THEN ReindexWalk(fsys, existing, root, id, Tail(evs), cs, t, fault, found)
      ELSE IF Rejected(fault, "upsert", ev.path)
      THEN [found EXCEPT !.failed = ev.path]
      ELSE ReindexWalk(fsys, existing, root, id, Tail(evs), cs, t, fault,
             [found EXCEPT
                !.tbl = UpsertFile(acc.tbl,
                           ReindexEntry(fsys, existing, root, id, ev, cs, t)),
                !.stats.updated = @ + (IF exists THEN 1 ELSE 0),
                !.stats.added = @ + (IF exists THEN 0 ELSE 1)])

\* "Remove files that no longer exist": every listed path that was not
\* found is deleted; a rejected delete is passed over and not counted
RemoveLoop(tbl, existing, foundPaths, id, fault) ==
    LET gone == {r.path : r \in existing} \ foundPaths
        done == {p \in gone : ~Rejected(fault, "delete", p)}
    IN  [tbl |-> DeleteFiles(tbl, done, id),
         removed |-> Cardinality(done),
         rejected |-> Cardinality(gone \ done)]

\* Indexer.Reindex as a function of the state
ReindexResult(fsys, tbl, idx, root, id, cs, t, fault) ==
    IF Rejected(fault, "list", NoPath)
    THEN [tbl |-> tbl, idx |-> idx, rejected |-> 1,
          ret |-> Ret("reindex", "list", NoPath, NoStats, cs)]
    ELSE
      LET existing == {r \in tbl : r.index_id = id}
          w == ReindexWalk(fsys, existing, root, id, Visited(fsys, root), cs, t, fault,
                           [tbl |-> tbl, stats |-> NoStats, failed |-> NoPath,
                            foundPaths |-> {}])
          d == RemoveLoop(w.tbl, existing, w.foundPaths, id, fault)
          stats == [w.stats EXCEPT !.removed = d.removed]
      IN  IF w.failed # NoPath
          THEN [tbl |-> w.tbl, idx |-> idx, rejected |-> 1,
                ret |-> Ret("reindex", "upsert", w.failed, w.stats, cs)]
          ELSE IF Rejected(fault, "stats", NoPath)
          THEN [tbl |-> d.tbl, idx |-> idx, rejected |-> d.rejected + 1,
                ret |-> Ret("reindex", "stats", NoPath, stats, cs)]
          ELSE [tbl |-> d.tbl, idx |-> UpdateIndexStats(idx, d.tbl, id, t),
                rejected |-> d.rejected,
                ret |-> Ret("reindex", "nil", NoPath, stats, cs)]

-----------------------------------------------------------------------------
(* The state machine of the indexer *)

InitFs ==
    [p \in Paths |->
        CASE p = Root -> Dir(0, 0)
          [] p = pA -> File(<<1>>, 0)
          [] p = pHidden -> File(<<1>>, 0)
          [] p = pD -> Dir(0, 0)
          [] p = pDF -> File(<<>>, 0)
          [] p = pE -> Absent
          [] p = pH -> Dir(0, 0)
          [] p = pHF -> File(<<2>>, 0)]

Budget(runs, nFsOps, nFaults) == [runs |-> runs, fsOps |-> nFsOps, faults |-> nFaults]

InitWithin(b) ==
    /\ fs = InitFs
    /\ files = {}
    /\ indexes = [i \in {IndexID} |-> Index0(Root)]
    /\ now = 1
    /\ fsOps = 0
    /\ faults = 0
    /\ budget = b
    /\ run = NoRun
    /\ ret = Ret("none", "nil", NoPath, NoStats, FALSE)

Init == InitWithin(Budget(MaxRuns, MaxFsOps, MaxFaults))

SmallInit == InitWithin(Budget(SmallRuns, SmallFsOps, SmallFaults))

FaultyInit == InitWithin(Budget(FaultyRuns, FaultyFsOps, FaultyFaults))

\* a run of Index that drops the rows of the index before the walk
IndexReplacing(cs, fault) ==
    /\ now <= budget.runs
    /\ fault # NoFault => faults < budget.faults
    /\ LET r == IndexResult(fs, {f \in files : f.index_id # IndexID}, indexes,
                            Root, IndexID, cs, now, fault)
       IN  /\ files' = r.tbl
           /\ indexes' = r.idx
           /\ ret' = r.ret
           /\ faults' = faults + r.rejected
    /\ now' = now + 1
    /\ UNCHANGED <<fs, fsOps, budget, run>>

Index(cs, fault) ==
    /\ now <= budget.runs
    /\ fault # NoFault => faults < budget.faults
    /\ LET r == IndexResult(fs, files, indexes, Root, IndexID, cs, now, fault)
       IN  /\ files' = r.tbl
           /\ indexes' = r.idx
           /\ ret' = r.ret
           /\ faults' = faults + r.rejected
    /\ now' = now + 1
    /\ UNCHANGED <<fs, fsOps, budget, run>>

Reindex(cs, fault) ==
    /\ now <= budget.runs
    /\ fault # NoFault => faults < budget.faults
    /\ LET r == ReindexResult(fs, files, indexes, Root, IndexID, cs, now, fault)
       IN  /\ files' = r.tbl
           /\ indexes' = r.idx
           /\ ret' = r.ret
           /\ faults' = faults + r.rejected
    /\ now' = now + 1
    /\ UNCHANGED <<fs, fsOps, budget, run>>

FsChanged ==
    /\ fsOps < budget.fsOps
    /\ fsOps' = fsOps + 1
    /\ ret' = Ret("fs", "nil", NoPath, NoStats, FALSE)
    /\ UNCHANGED <<files, indexes, now, faults, budget, run>>

ParentIsDir(p) == IF Len(p) = 1 THEN TRUE ELSE fs[Parent(p)].kind = "dir"

\* os.WriteFile and os.Chtimes: the file gets this content and this time
WriteFile(p, data, mt) ==
    /\ p # Root /\ ParentIsDir(p) /\ fs[p].kind # "dir"
    /\ fs[p] # File(data, mt)
    /\ fs' = [fs EXCEPT ![p] = File(data, mt)]
    /\ FsChanged

\* os.Mkdir, at the latest time
Mkdir(p, dsize) ==
    /\ ParentIsDir(p) /\ fs[p].kind = "absent"
    /\ fs' = [fs EXCEPT ![p] = Dir(dsize, MaxMTime)]
    /\ FsChanged

\* os.RemoveAll: the object and everything under it
RemoveAll(p) ==
    /\ fs[p].kind # "absent"
    /\ fs' = [q \in Paths |-> IF q = p \/ IsUnder(q, p) THEN Absent ELSE fs[q]]
    /\ FsChanged

\* os.Chmod
Chmod(p, mode) ==
    /\ fs[p].kind # "absent" /\ fs[p].mode # mode
    /\ fs' = [fs EXCEPT ![p].mode = mode]
    /\ FsChanged

Next ==
    \/ \E cs \in BOOLEAN, fault \in Faults : Index(cs, fault)
    \/ \E cs \in BOOLEAN, fault \in Faults : Reindex(cs, fault)
    \/ \E p \in WritePaths, data \in Contents, mt \in MTimes : WriteFile(p, data, mt)
    \/ \E p \in MkdirPaths, dsize \in DirSizes : Mkdir(p, dsize)
    \/ \E p \in RemovePaths : RemoveAll(p)
    \/ \E c \in Chmods : Chmod(c[1], c[2])

Spec == Init /\ [][Next]_vars

\* the same machine within the smaller bounds
SmallSpec == SmallInit /\ [][Next]_vars

\* the same machine with one run, before and in which something goes wrong
FaultySpec == FaultyInit /\ [][Next]_vars

-----------------------------------------------------------------------------
(* Syncer.CompareIndexes *)

RECURSIVE TargetMapFilesOnly(_)
TargetMapFilesOnly(targetFiles) ==
    IF targetFiles = <<>> THEN <<>>
    ELSE LET m == TargetMapFilesOnly(SubSeq(targetFiles, 1, Len(targetFiles) - 1))
             f == targetFiles[Len(targetFiles)]
         IN  IF f.is_directory THEN m
             ELSE [p \in DOMAIN m \cup {f.relative_path} |->
                     IF p = f.relative_path THEN f ELSE m[p]]

RECURSIVE TargetMap(_)
\* targetMap: every listed row of the target by relative path, a later row
\* replacing an earlier one with the same relative path
TargetMap(targetFiles) ==
    IF targetFiles = <<>> THEN <<>>
    ELSE LET m == TargetMap(SubSeq(targetFiles, 1, Len(targetFiles) - 1))
             f == targetFiles[Len(targetFiles)]
         IN  [p \in DOMAIN m \cup {f.relative_path} |->
                IF p = f.relative_path THEN f ELSE m[p]]

\* targetChecksumMap: the listed rows of the target with this non-empty
\* checksum, in the order listed
TargetChecksumMap(targetFiles, sum) ==
    SelectSeq(targetFiles, LAMBDA f : f.checksum # NoChecksum /\ f.checksum = sum)

SourceMapFilesOnly(sourceFiles) ==
    {sourceFiles[i].relative_path :
        i \in {j \in 1..Len(sourceFiles) : ~sourceFiles[j].is_directory}}

\* sourceMap: the relative paths of every listed row of the source
SourceMap(sourceFiles) ==
    {sourceFiles[i].relative_path : i \in 1..Len(sourceFiles)}

IsUpdatedAnyChecksum(sourceFile, targetFile) ==
    \/ sourceFile.size # targetFile.size
    \/ Unix(sourceFile.mod_time) # Unix(targetFile.mod_time)
    \/ sourceFile.checksum # targetFile.checksum

\* "Check if file was updated": another size, another second of the
\* modification time, or two non-empty checksums that differ
IsUpdated(sourceFile, targetFile) ==
    \/ sourceFile.size # targetFile.size
    \/ Unix(sourceFile.mod_time) # Unix(targetFile.mod_time)
    \/ /\ sourceFile.checksum # NoChecksum
       /\ targetFile.checksum # NoChecksum
       /\ sourceFile.checksum # targetFile.checksum

\* Syncer.CompareIndexes on the listed rows of the two indexes
CompareFiles(sourceFiles, targetFiles) ==
    LET targetMap == TargetMap(targetFiles)
        sourceMap == SourceMap(sourceFiles)
        exists(f) == f.relative_path \in DOMAIN targetMap
        isNew(f) == ~f.is_directory /\ ~exists(f)
        hinted == {sourceFiles[i].relative_path :
                     i \in {j \in 1..Len(sourceFiles) :
                              /\ isNew(sourceFiles[j])
                              /\ sourceFiles[j].checksum # NoChecksum
                              /\ TargetChecksumMap(targetFiles,
                                                   sourceFiles[j].checksum) # <<>>}}
    IN  [NewFiles |-> SelectSeq(sourceFiles, isNew),
         UpdatedFiles |->
            SelectSeq(sourceFiles,
                      LAMBDA f : /\ ~f.is_directory
                                 /\ exists(f)
                                 /\ IsUpdated(f, targetMap[f.relative_path])),
         DeletedFiles |->
            SelectSeq(targetFiles,
                      LAMBDA f : ~f.is_directory /\ f.relative_path \notin sourceMap),
         DuplicateFiles |->
            [p \in hinted |->
               TargetChecksumMap(targetFiles,
                  (CHOOSE f \in {sourceFiles[i] : i \in 1..Len(sourceFiles)} :
                      isNew(f) /\ f.relative_path = p).checksum)]]

CompareIndexes(tbl, sourceIndexID, targetIndexID) ==
    CompareFiles(ListFiles(tbl, sourceIndexID), ListFiles(tbl, targetIndexID))

NoResult == [NewFiles |-> <<>>, UpdatedFiles |-> <<>>, DeletedFiles |-> <<>>,
             DuplicateFiles |-> <<>>]

SyncRet(op, err, src, tgt, result) ==
    [op |-> op, err |-> err, src |-> src, tgt |-> tgt, result |-> result]

-----------------------------------------------------------------------------
(* The state machine of the syncer: two indexes with any rows *)

TargetID == "i2"
nT == <<"t">>
TargetRoot == <<nT>>

AbsentEntry == [kind |-> "absent", size |-> 0, mt |-> 0, sum |-> NoChecksum]
Checksums == {NoChecksum, Sha256Hex(<<1>>), Sha256Hex(<<2>>)}

\* what an index may hold at the first relative path
EntryChoices ==
    {AbsentEntry, [kind |-> "dir", size |-> 0, mt |-> 0, sum |-> NoChecksum]}
    \cup {[kind |-> "file", size |-> sz, mt |-> m, sum |-> c] :
            sz \in {0, 1}, m \in MTimes, c \in Checksums}

\* what an index may hold at the second relative path
FewEntryChoices ==
    {AbsentEntry,
     [kind |-> "dir", size |-> 0, mt |-> 0, sum |-> NoChecksum],
     \* a directory that took the place of a file and kept the checksum of
     \* its row (Reindex, carried forward)
     [kind |-> "dir", size |-> 0, mt |-> 0, sum |-> Sha256Hex(<<1>>)],
     [kind |-> "file", size |-> 0, mt |-> 0, sum |-> NoChecksum],
     [kind |-> "file", size |-> 1, mt |-> 0, sum |-> Sha256Hex(<<1>>)]}

RowsOf(root, id, name, e) ==
    IF e.kind = "absent" THEN {}
    ELSE {FileEntry(root \o <<name>>, <<name>>, e.size, e.mt, e.sum, id, 0,
                    e.kind = "dir")}

SyncStores ==
    {RowsOf(Root, IndexID, nA, sa) \cup RowsOf(Root, IndexID, nD, sd)
       \cup RowsOf(TargetRoot, TargetID, nA, ta) \cup RowsOf(TargetRoot, TargetID, nD, td) :
     sa \in EntryChoices, sd \in FewEntryChoices,
     ta \in EntryChoices, td \in FewEntryChoices}

\* the time createTestIndex gave each index: the source first
CreatedAt(id) == IF id = IndexID THEN 1 ELSE 2

RECURSIVE OrderByCreatedAtDesc(_)
OrderByCreatedAtDesc(ids) ==
    IF ids = {} THEN <<>>
    ELSE LET m == CHOOSE x \in ids : \A y \in ids \ {x} : CreatedAt(x) > CreatedAt(y)
         IN  <<m>> \o OrderByCreatedAtDesc(ids \ {m})

\* DB.ListIndexes: the indexes, ORDER BY created_at DESC
ListIndexes(idx) == OrderByCreatedAtDesc(DOMAIN idx)

DuplicateCandidateAnyKind(file) == file.checksum # NoChecksum

DuplicateCandidateAnySum(file) == ~file.is_directory

\* FindDuplicates keeps a listed row when it has a checksum and is no
\* directory
DuplicateCandidate(file) == file.checksum # NoChecksum /\ ~file.is_directory

RECURSIVE ChecksumMapRows(_, _, _)
\* the rows FindDuplicates puts in checksumMap, in the order appended: index
\* by index, an index whose listing fails passed over
ChecksumMapRows(tbl, ids, failed) ==
    IF ids = <<>> THEN <<>>
    ELSE (IF Head(ids) \in failed THEN <<>>
          ELSE SelectSeq(ListFiles(tbl, Head(ids)), DuplicateCandidate))
         \o ChecksumMapRows(tbl, Tail(ids), failed)

\* FindDuplicates giving up, with nothing found, when a listing fails
FindDuplicatesOrNothing(tbl, idx, failed) ==
    LET all == ChecksumMapRows(tbl, ListIndexes(idx), failed)
        checksumMap(c) == SelectSeq(all, LAMBDA f : f.checksum = c)
        sums == {all[i].checksum : i \in 1..Len(all)}
    IN  [c \in {x \in sums : failed \cap DOMAIN idx = {} /\ Len(checksumMap(x)) > 1} |->
            checksumMap(c)]

\* Syncer.FindDuplicates: the checksums with more than one row, each with
\* its rows
FindDuplicates(tbl, idx, failed) ==
    LET all == ChecksumMapRows(tbl, ListIndexes(idx), failed)
        checksumMap(c) == SelectSeq(all, LAMBDA f : f.checksum = c)
        sums == {all[i].checksum : i \in 1..Len(all)}
    IN  [c \in {x \in sums : Len(checksumMap(x)) > 1} |-> checksumMap(c)]

-----------------------------------------------------------------------------
(* DB.FindFiles *)

\* the name createTestIndex gave each index
IndexName(id) == IF id = IndexID THEN <<"s">> ELSE <<"t">>

\* the relative path as the string stored: the names joined by "/"
RelString(rel) == Tail(PathString(rel))

RECURSIVE ReplaceAll(_, _, _)
\* strings.ReplaceAll of one character by a string
ReplaceAll(str, old, new) ==
    IF str = <<>> THEN <<>>
    ELSE (IF Head(str) = old THEN new ELSE <<Head(str)>>)
         \o ReplaceAll(Tail(str), old, new)

\* convertPatternToLike: escape \, % and _ with a backslash, then * becomes
\* % and ? becomes _
convertPatternToLike(pattern) ==
    LET p1 == ReplaceAll(pattern, "\\", <<"\\", "\\">>)
        p2 == ReplaceAll(p1, "%", <<"\\", "%">>)
        p3 == ReplaceAll(p2, "_", <<"\\", "_">>)
        p4 == ReplaceAll(p3, "*", <<"%">>)
    IN  ReplaceAll(p4, "?", <<"_">>)

\* LIKE folds the case of ASCII letters
Lower(c) == CASE c = "A" -> "a" [] c = "D" -> "d" [] c = "T" -> "t" [] OTHER -> c

RECURSIVE Like(_, _)
\* SQLite's `str LIKE pattern` with no ESCAPE clause: % is any run of
\* characters, _ any one character, every other character itself
Like(pattern, str) ==
    IF pattern = <<>> THEN str = <<>>
    ELSE IF Head(pattern) = "%"
         THEN Like(Tail(pattern), str) \/ (str # <<>> /\ Like(pattern, Tail(str)))
    ELSE /\ str # <<>>
         /\ Head(pattern) = "_" \/ Lower(Head(pattern)) = Lower(Head(str))
         /\ Like(Tail(pattern), Tail(str))

\* a day of the model's clock
TicksPerDay == SecondsPerDay * TicksPerSecond

\* the text of a time.Time bound to a statement (the driver's
\* "2006-01-02 15:04:05.999999999-07:00"): the date, a space, the clock
StoredTimeText(t) ==
    [date |-> t \div TicksPerDay, sep |-> " ", clock |-> t % TicksPerDay]

\* t.Format(time.RFC3339): the date, the letter T, the clock
FormatRFC3339(t) ==
    [date |-> (t \div TicksPerSecond) \div (TicksPerDay \div TicksPerSecond),
     sep |-> "T",
     clock |-> (t \div TicksPerSecond) % (TicksPerDay \div TicksPerSecond) * TicksPerSecond]

\* the order of two such texts under SQLite's BINARY collation
TimeTextLeq(a, b) ==
    \/ a.date < b.date
    \/ /\ a.date = b.date
       /\ \/ CharCode(a.sep) < CharCode(b.sep)
          \/ a.sep = b.sep /\ a.clock <= b.clock

NoTime == -1

FindOptions(name, dir, sum, minSize, maxSize, ids, dups, since, until, type) ==
    [NamePattern |-> name, DirectoryPattern |-> dir, Checksum |-> sum,
     MinSize |-> minSize, MaxSize |-> maxSize, IndexIDs |-> ids,
     OnlyDuplicates |-> dups, ModifiedSince |-> since, ModifiedUntil |-> until,
     FileType |-> type]

\* the four LIKE tests of the directory pattern
DirectoryMatches(dirPattern, rel) ==
    \/ Like(dirPattern \o <<"/", "%">>, rel)
    \/ Like(<<"%", "/">> \o dirPattern \o <<"/", "%">>, rel)
    \/ Like(<<"%", "/">> \o dirPattern, rel)
    \/ Like(dirPattern, rel)

DuplicatedChecksumsOrEmpty(tbl) ==
    {sum \in {r.checksum : r \in tbl} :
        Cardinality({r \in tbl : r.checksum = sum}) > 1}

\* SELECT checksum FROM files WHERE checksum != '' GROUP BY checksum
\* HAVING COUNT(*) > 1
DuplicatedChecksums(tbl) ==
    {sum \in {r.checksum : r \in tbl} :
        /\ sum # NoChecksum
        /\ Cardinality({r \in tbl : r.checksum = sum}) > 1}

\* the WHERE clause FindFiles builds from the options, for one row
FindCondition(tbl, opts, f) ==
    /\ opts.NamePattern # <<>> =>
          Like(convertPatternToLike(opts.NamePattern), RelString(f.relative_path))
    /\ opts.DirectoryPattern # <<>> =>
          DirectoryMatches(convertPatternToLike(opts.DirectoryPattern),
                           RelString(f.relative_path))
    /\ opts.Checksum # NoChecksum => f.checksum = opts.Checksum
    /\ opts.MinSize > 0 => f.size >= opts.MinSize
    /\ opts.MaxSize > 0 => f.size <= opts.MaxSize
    /\ opts.FileType = "file" => ~f.is_directory
    /\ opts.FileType \in {"dir", "directory"} => f.is_directory
    /\ opts.ModifiedSince # NoTime =>
          TimeTextLeq(FormatRFC3339(opts.ModifiedSince), StoredTimeText(f.mod_time))
    /\ opts.ModifiedUntil # NoTime =>
          TimeTextLeq(StoredTimeText(f.mod_time), FormatRFC3339(opts.ModifiedUntil))
    /\ opts.IndexIDs # {} => f.index_id \in opts.IndexIDs
    /\ opts.OnlyDuplicates => f.checksum \in DuplicatedChecksums(tbl)

FileWithIndex(f, idx) ==
    [FileEntry |-> f, IndexName |-> IndexName(f.index_id),
     IndexPath |-> idx[f.index_id].root_path]

RECURSIVE OrderByNameThenPath(_)
\* ORDER BY i.name, f.path
OrderByNameThenPath(S) ==
    IF S = {} THEN <<>>
    ELSE LET before(x, y) ==
                 \/ StrLess(x.IndexName, y.IndexName)
                 \/ /\ x.IndexName = y.IndexName
                    /\ StrLess(PathString(x.FileEntry.path), PathString(y.FileEntry.path))
             m == CHOOSE x \in S : \A y \in S \ {x} : before(x, y)
         IN  <<m>> \o OrderByNameThenPath(S \ {m})

\* FindFiles with the duplicates counted among the rows that meet the other
\* conditions
FindFilesCountingFound(tbl, idx, opts) ==
    LET others == [opts EXCEPT !.OnlyDuplicates = FALSE]
        found == {r \in tbl : FindCondition(tbl, others, r)}
    IN  OrderByNameThenPath(
            {FileWithIndex(f, idx) :
                f \in {r \in found :
                          r.index_id \in DOMAIN idx /\ FindCondition(found, opts, r)}})

\* DB.FindFiles: the rows of existing indexes that meet every condition
FindFiles(tbl, idx, opts) ==
    OrderByNameThenPath(
        {FileWithIndex(f, idx) :
            f \in {r \in tbl : r.index_id \in DOMAIN idx /\ FindCondition(tbl, opts, r)}})

FindRet(op, err, opts, result) ==
    [op |-> op, err |-> err, opts |-> opts, result |-> result]

DupRet(op, err, failed, result) ==
    [op |-> op, err |-> err, failed |-> failed, result |-> result]

\* the indexes whose listing the store may reject during FindDuplicates
ListFailures == {{}, {TargetID}}

SyncInit ==
    /\ fs = InitFs
    /\ files \in SyncStores
    /\ indexes = [i \in {IndexID, TargetID} |->
                    Index0(IF i = IndexID THEN Root ELSE TargetRoot)]
    /\ now = 1
    /\ fsOps = 0
    /\ faults = 0
    /\ budget = Budget(0, 0, 0)
    /\ run = NoRun
    /\ ret = SyncRet("none", "nil", IndexID, TargetID, NoResult)

\* a call of Syncer.CompareIndexes that writes the statistics of the source
CompareUpdatingStats(sourceIndexID, targetIndexID) ==
    /\ ret' = SyncRet("compare", "nil", sourceIndexID, targetIndexID,
                      CompareIndexes(files, sourceIndexID, targetIndexID))
    /\ indexes' = UpdateIndexStats(indexes, files, sourceIndexID, now)
    /\ UNCHANGED <<fs, files, now, fsOps, faults, budget, run>>

\* a call of Syncer.CompareIndexes: two listings, no write
Compare(sourceIndexID, targetIndexID) ==
    /\ ret' = SyncRet("compare", "nil", sourceIndexID, targetIndexID,
                      CompareIndexes(files, sourceIndexID, targetIndexID))
    /\ UNCHANGED <<fs, files, indexes, now, fsOps, faults, budget, run>>

\* a call of Syncer.CompareIndexes in which the listing of the source or of
\* the target fails
CompareFails(sourceIndexID, targetIndexID, err) ==
    /\ ret' = SyncRet("compareFailed", err, sourceIndexID, targetIndexID, NoResult)
    /\ UNCHANGED <<fs, files, indexes, now, fsOps, faults, budget, run>>

\* a call of Syncer.FindDuplicates; ListIndexes may fail, and so may the
\* listing of single indexes
Duplicates(listed, failed) ==
    /\ ret' = IF listed
              THEN DupRet("duplicates", "nil", failed,
                          FindDuplicates(files, indexes, failed))
              ELSE DupRet("duplicates", "list indexes", {}, <<>>)
    /\ UNCHANGED <<fs, files, indexes, now, fsOps, faults, budget, run>>

\* the options of the calls of FindFiles
FindOptionsChoices ==
    {FindOptions(<<>>, <<>>, NoChecksum, 0, 0, ids, dups, NoTime, NoTime, "") :
        ids \in {{}, {IndexID}}, dups \in BOOLEAN}

\* a call of DB.FindFiles
Find(opts) ==
    /\ ret' = FindRet("find", "nil", opts, FindFiles(files, indexes, opts))
    /\ UNCHANGED <<fs, files, indexes, now, fsOps, faults, budget, run>>

SyncNext ==
    \/ \E opts \in FindOptionsChoices : Find(opts)
    \/ \E src \in {IndexID, TargetID}, tgt \in {IndexID, TargetID} :
          src # tgt /\ Compare(src, tgt)
    \/ \E err \in {"list source", "list target"} : CompareFails(IndexID, TargetID, err)
    \/ \E listed \in BOOLEAN, failed \in ListFailures :
          (listed \/ failed = {}) /\ Duplicates(listed, failed)

SyncSpec == SyncInit /\ [][SyncNext]_vars

-----------------------------------------------------------------------------
(* The state machine of the store: the calls of DB on two indexes *)

StoreRet(op, err, arg) == [op |-> op, err |-> err, arg |-> arg]

\* an id no index has
NoSuchID == "i3"

\* the keys (path, index_id) the calls of UpsertFile use
UpsertKeys == {<<pA, IndexID>>, <<pD, IndexID>>, <<TargetRoot \o <<nA>>, TargetID>>}

\* the values the calls of UpsertFile carry: a file, the file grown, later
\* and with a checksum, and a directory
UpsertValues ==
    {[size |-> 0, mt |-> 0, sum |-> NoChecksum, scanned |-> 0, isDir |-> FALSE],
     [size |-> 1, mt |-> MaxMTime, sum |-> Sha256Hex(<<1>>), scanned |-> 1, isDir |-> FALSE],
     [size |-> 0, mt |-> 0, sum |-> NoChecksum, scanned |-> 1, isDir |-> TRUE]}

UpsertEntries ==
    {FileEntry(k[1], <<name>>, v.size, v.mt, v.sum, k[2], v.scanned, v.isDir) :
        k \in UpsertKeys, name \in {nA, nD}, v \in UpsertValues}

StoreInit ==
    /\ fs = InitFs
    /\ files = {}
    /\ indexes = [i \in {IndexID, TargetID} |->
                    Index0(IF i = IndexID THEN Root ELSE TargetRoot)]
    /\ now = 1
    /\ fsOps = 0
    /\ faults = 0
    /\ budget = Budget(0, 0, 0)
    /\ run = NoRun
    /\ ret = StoreRet("none", "nil", NoPath)

\* a call of DB.UpsertFile; the store rejects a row that refers to no index
\* (FOREIGN KEY(index_id) REFERENCES indexes(id))
Upsert(f) ==
    /\ IF f.index_id \in DOMAIN indexes
       THEN /\ files' = UpsertFile(files, f)
            /\ ret' = StoreRet("upsert", "nil", f)
       ELSE /\ files' = files
            /\ ret' = StoreRet("upsert", "FOREIGN KEY constraint failed", f)
    /\ UNCHANGED <<fs, indexes, now, fsOps, faults, budget, run>>

\* a call of DB.DeleteIndex
Delete(id) ==
    LET r == DeleteIndex(indexes, files, id)
    IN  /\ indexes' = r.idx
        /\ files' = r.tbl
        /\ ret' = StoreRet("deleteIndex", r.err, id)
        /\ UNCHANGED <<fs, now, fsOps, faults, budget, run>>

StoreNext ==
    \/ \E f \in UpsertEntries : Upsert(f)
    \/ \E id \in {IndexID, TargetID, NoSuchID} : Delete(id)

StoreSpec == StoreInit /\ [][StoreNext]_vars

-----------------------------------------------------------------------------
(* Properties of the store *)

\* C15: a call of UpsertFile that succeeds adds the row when the store has
\* none with its path and index; otherwise it replaces the size,
\* modification time, checksum, last-scanned time and directory flag of
\* that row and leaves its relative path, path and index as they were. No
\* other row changes, and no two rows share a path and an index.
C15_UpsertFrame ==
    [][(ret'.op = "upsert" /\ ret'.err = "nil") =>
          LET f == ret'.arg
              old == GetFile(files, f.path, f.index_id)
          IN  /\ old = {} => files' = files \cup {f}
              /\ \A r \in old :
                    files' = (files \ {r})
                                \cup {[f EXCEPT !.relative_path = r.relative_path]}
              /\ \A r1, r2 \in files' : SameKey(r1, r2) => r1 = r2]_vars

\* after an upsert the row of its key has the directory flag and
\* last-scanned time the call carried and a relative path the call did not
\* carry (the one the row had), beside a row of another key
C15_Witness ==
    /\ ret.op = "upsert" /\ ret.err = "nil"
    /\ \E r \in files :
          /\ SameKey(r, ret.arg)
          /\ r.relative_path # ret.arg.relative_path
          /\ r.is_directory /\ r.last_scanned = 1
    /\ \E r \in files : ~SameKey(r, ret.arg)

\* C20: DeleteIndex of an existing index removes the index and every row of
\* it and leaves every other index and row as it was; for an id no index
\* has it returns an error and changes nothing.
C20_DeleteIndex ==
    [][ret'.op = "deleteIndex" =>
          LET id == ret'.arg
          IN  IF id \in DOMAIN indexes
              THEN /\ ret'.err = "nil"
                   /\ DOMAIN indexes' = DOMAIN indexes \ {id}
                   /\ \A i \in DOMAIN indexes' : indexes'[i] = indexes[i]
                   /\ files' = {r \in files : r.index_id # id}
              ELSE /\ ret'.err # "nil"
                   /\ indexes' = indexes
                   /\ files' = files]_vars

\* an index was deleted while the other index is there and has rows
C20_Witness ==
    /\ ret.op = "deleteIndex" /\ ret.err = "nil"
    /\ ret.arg = IndexID
    /\ TargetID \in DOMAIN indexes
    /\ \E r \in files : r.index_id = TargetID

-----------------------------------------------------------------------------
(* Properties of Reindex and Index *)

Rows(tbl, id) == {r \in tbl : r.index_id = id}
PathsOf(S) == {r.path : r \in S}
VisitedPaths(fsys, root) ==
    {Visited(fsys, root)[i].path : i \in 1..Len(Visited(fsys, root))}
VisitedInfo(fsys, root) ==
    {Visited(fsys, root)[i] : i \in 1..Len(Visited(fsys, root))}

\* the step is a run of Reindex that returned success
ReindexReturnsNil == now' # now /\ ret'.op = "reindex" /\ ret'.err = "nil"

\* the root cannot be walked: it is missing, or it cannot be read
RootFails(fsys) == fsys[Root].kind = "absent" \/ fsys[Root].mode = "-wx"

\* C1: a Reindex that returns success right after a Reindex that returned
\* success, with no filesystem change between them, reports added = 0,
\* updated = 0 and removed = 0.
C1_SecondReindexIsEmpty ==
    [][(ret.op = "reindex" /\ ret.err = "nil" /\ ReindexReturnsNil)
          => (ret'.stats.added = 0 /\ ret'.stats.updated = 0
              /\ ret'.stats.removed = 0)]_vars

\* C2: Index and Reindex on a root that is missing or unreadable return an
\* error.
C2_RootFailureIsReturned ==
    (ret.op \in {"index", "reindex"} /\ RootFails(fs)) => ret.err # "nil"

\* C3: Reindex on a root that is missing or unreadable deletes and modifies
\* no row and does not recompute the statistics of the index.
C3_RootFailureChangesNothing ==
    [][(now' # now /\ ret'.op = "reindex" /\ RootFails(fs))
          => (files' = files /\ indexes' = indexes)]_vars

\* C4: when Reindex returns success, every row listed before it whose path
\* the walk did not visit is gone from the store, and the removed count is
\* the number of rows deleted.
C4_UnobservedAreRemoved ==
    [][ReindexReturnsNil =>
          LET before == Rows(files, IndexID)
              unobserved == PathsOf(before) \ VisitedPaths(fs, Root)
          IN  /\ \A p \in unobserved : GetFile(files', p, IndexID) = {}
              /\ ret'.stats.removed =
                    Cardinality(PathsOf(before) \ PathsOf(Rows(files', IndexID)))]_vars

\* what C5 says of one visited object, given the rows before the run
C5_Differs(r, ev) ==
    r.size # InfoSize(ev.info) \/ Unix(r.mod_time) # Unix(InfoModTime(ev.info))
C5_Added(before, ev) == ~\E r \in before : r.path = ev.path
C5_Updated(before, ev) == \E r \in before : r.path = ev.path /\ C5_Differs(r, ev)

\* C5: in a Reindex whose walk ran to its end, the added count is the number
\* of visited objects with no row at their path, the updated count the number
\* of those with a row of another size or another second of modification
\* time; these are upserted with the walked values, and the row of every
\* other visited object is left as it was.
C5_Classification ==
    [][(now' # now /\ ret'.op = "reindex" /\ ret'.err \in {"nil", "stats"}) =>
          LET before == Rows(files, IndexID)
              evs == VisitedInfo(fs, Root)
          IN  /\ ret'.stats.added = Cardinality({ev \in evs : C5_Added(before, ev)})
              /\ ret'.stats.updated = Cardinality({ev \in evs : C5_Updated(before, ev)})
              /\ \A ev \in evs :
                    IF C5_Added(before, ev) \/ C5_Updated(before, ev)
                    THEN \E r \in GetFile(files', ev.path, IndexID) :
                            /\ r.size = InfoSize(ev.info)
                            /\ r.mod_time = InfoModTime(ev.info)
                            /\ r.is_directory = InfoIsDir(ev.info)
                            /\ r.last_scanned = now
                    ELSE GetFile(files', ev.path, IndexID)
                            = GetFile(files, ev.path, IndexID)]_vars

\* a Reindex that found an object to update and, beside it, one to leave
C5_Witness ==
    /\ ret.op = "reindex" /\ ret.err = "nil"
    /\ ret.stats.updated > 0
    /\ \E r \in Rows(files, IndexID) :
          r.path \in VisitedPaths(fs, Root) /\ r.last_scanned < now - 1

\* the last step was a run of Index or Reindex that returned success
RunReturnedNil == ret.op \in {"index", "reindex"} /\ ret.err = "nil"

\* C14: the store never holds a row whose path has a name beginning with
\* "." (a hidden object, or an object beneath a hidden directory), and after
\* a run that returned success over a readable root the normally-named
\* object beside the hidden ones has its row.
C14_HiddenAreAbsent ==
    /\ \A r \in files : \A i \in 1..Len(r.path) : r.path[i][1] # "."
    /\ (RunReturnedNil /\ ~RootFails(fs) /\ fs[pA].kind # "absent")
          => GetFile(files, pA, IndexID) # {}

\* a run returned success over a tree with a hidden directory, a file in
\* it, a hidden file, and a normally-named file beside them
C14_Witness ==
    /\ RunReturnedNil /\ ~RootFails(fs)
    /\ fs[pH].kind = "dir" /\ fs[pHF].kind = "file"
    /\ fs[pHidden].kind = "file" /\ fs[pA].kind = "file"
    /\ GetFile(files, pA, IndexID) # {}

\* C16: when Index or Reindex has returned success, total_files of the
\* index is the number of its rows, files and directories, and total_size
\* the sum of the sizes of its rows that are no directories.
C16_AggregatesMatch ==
    RunReturnedNil =>
        /\ indexes[IndexID].total_files = Cardinality(Rows(files, IndexID))
        /\ indexes[IndexID].total_size =
              SumSize({r \in Rows(files, IndexID) : ~r.is_directory})

\* a run returned success with a directory of a size above 0 and a file of
\* a size above 0 among the rows
C16_Witness ==
    /\ RunReturnedNil
    /\ \E r \in Rows(files, IndexID) : r.is_directory /\ r.size > 0
    /\ \E r \in Rows(files, IndexID) : ~r.is_directory /\ r.size > 0

\* C17: when the store rejects the upsert of an object during Index, Index
\* returns an error that names the path of that object; the objects visited
\* before it have their rows of this run, the row of that object and the
\* rows of the objects after it are as before the run, and the statistics
\* of the index are not recomputed.
C17_UpsertFailureStopsIndex ==
    [][(now' # now /\ ret'.op = "index" /\ ret'.err = "upsert") =>
          LET vis == Visited(fs, Root)
              at == {i \in 1..Len(vis) : vis[i].path = ret'.path}
          IN  /\ at # {}
              /\ \A k \in at : \A i \in 1..Len(vis) :
                    IF i < k
                    THEN \E r \in GetFile(files', vis[i].path, IndexID) :
                            r.last_scanned = now
                    ELSE GetFile(files', vis[i].path, IndexID)
                            = GetFile(files, vis[i].path, IndexID)
              /\ indexes' = indexes]_vars

\* Index stopped at a rejected upsert with an object upserted before it and
\* an object on the disk after it that has no row
C17_Witness ==
    /\ ret.op = "index" /\ ret.err = "upsert" /\ ret.path = pA
    /\ \E r \in GetFile(files, Root, IndexID) : r.last_scanned = now - 1
    /\ fs[pD].kind = "dir" /\ GetFile(files, pD, IndexID) = {}

\* C18: a Reindex in which the store rejected a call (the listing of the
\* rows, an upsert, a delete or the recomputation of the statistics) returns
\* an error.
C18_StoreFailureIsFatal ==
    [][(now' # now /\ ret'.op = "reindex" /\ faults' > faults)
          => ret'.err # "nil"]_vars

\* the object at p is handed to the walk function without an error: it is
\* there, no name on its path is hidden, every directory above it can be
\* listed and searched, and it can be listed itself if it is a directory
C19_Delivered(fsys, p) ==
    /\ fsys[p].kind # "absent"
    /\ \A i \in 1..Len(p) : p[i][1] # "."
    /\ \A k \in 1..(Len(p) - 1) :
          fsys[SubSeq(p, 1, k)].kind = "dir" /\ fsys[SubSeq(p, 1, k)].mode = "rwx"
    /\ fsys[p].kind = "dir" => fsys[p].mode # "-wx"

\* C19: an Index over a root that can be walked, in which the store rejects
\* no call, returns success whatever objects cannot be stat-ed, listed or
\* read: every object handed to the walk function without an error has its
\* row of this run, and the row of a file that cannot be read has an empty
\* checksum.
C19_EntryFailuresAreSkipped ==
    [][(now' # now /\ ret'.op = "index" /\ faults' = faults /\ ~RootFails(fs)) =>
          /\ ret'.err = "nil"
          /\ \A p \in Paths :
                C19_Delivered(fs, p) =>
                    \E r \in GetFile(files', p, IndexID) :
                        /\ r.last_scanned = now
                        /\ (fs[p].kind = "file" /\ fs[p].mode # "rwx")
                              => r.checksum = NoChecksum]_vars

\* an Index with checksums returned success over a tree with a file that
\* cannot be read, whose row has no checksum, beside a file whose row has
\* one
C19_Witness ==
    /\ ret.op = "index" /\ ret.err = "nil" /\ ret.checksums
    /\ fs[pDF].kind = "file" /\ fs[pDF].mode = "-wx"
    /\ \E r \in GetFile(files, pDF, IndexID) :
          r.last_scanned = now - 1 /\ r.checksum = NoChecksum
    /\ \E r \in GetFile(files, pA, IndexID) :
          r.last_scanned = now - 1 /\ r.checksum # NoChecksum

-----------------------------------------------------------------------------
(* Properties of CompareIndexes *)

SetOf(seq) == {seq[i] : i \in 1..Len(seq)}
RelsOf(S) == {r.relative_path : r \in S}
Compared == ret.op = "compare"
SourceRows == Rows(files, ret.src)
TargetRows == Rows(files, ret.tgt)
\* the result of the comparison in the other direction
Swapped == CompareIndexes(files, ret.tgt, ret.src)

\* C6: the new files are the source rows that are no directories and whose
\* relative path is that of no target row that is no directory.
C6_NewIgnoresTargetDirectories ==
    Compared =>
        SetOf(ret.result.NewFiles) =
            {f \in SourceRows :
                /\ ~f.is_directory
                /\ ~\E t \in TargetRows :
                      ~t.is_directory /\ t.relative_path = f.relative_path}

\* C7: the deleted files are the target rows that are no directories and
\* whose relative path is that of no source row; they are none when the two
\* indexes hold the same relative paths.
C7_Deleted ==
    Compared =>
        /\ SetOf(ret.result.DeletedFiles) =
              {t \in TargetRows :
                  ~t.is_directory /\ t.relative_path \notin RelsOf(SourceRows)}
        /\ Len(ret.result.DeletedFiles) = Cardinality(SetOf(ret.result.DeletedFiles))
        /\ RelsOf(SourceRows) = RelsOf(TargetRows) => ret.result.DeletedFiles = <<>>

\* a comparison with a deleted file, next to a target directory that has no
\* source row and is not reported
C7_Witness ==
    /\ Compared
    /\ ret.result.DeletedFiles # <<>>
    /\ \E t \in TargetRows :
          t.is_directory /\ t.relative_path \notin RelsOf(SourceRows)

\* C8: a source row that is no directory and whose relative path is in the
\* target lookup is among the updated files exactly if its size differs from
\* the target row's, or the second of its modification time does, or both
\* checksums are non-empty and differ.
C8_Updated ==
    Compared =>
        \A f \in SourceRows : \A t \in TargetRows :
            (~f.is_directory /\ t.relative_path = f.relative_path) =>
                (f \in SetOf(ret.result.UpdatedFiles) <=>
                    \/ f.size # t.size
                    \/ f.mod_time \div TicksPerSecond # t.mod_time \div TicksPerSecond
                    \/ /\ f.checksum # NoChecksum /\ t.checksum # NoChecksum
                       /\ f.checksum # t.checksum)

\* a comparison that leaves alone a file with a checksum on one side only,
\* and with another modification time within the same second
C8_Witness ==
    /\ Compared
    /\ \E f \in SourceRows : \E t \in TargetRows :
          /\ ~f.is_directory /\ ~t.is_directory
          /\ t.relative_path = f.relative_path
          /\ f.checksum # NoChecksum /\ t.checksum = NoChecksum
          /\ f.mod_time # t.mod_time
          /\ f \notin SetOf(ret.result.UpdatedFiles)

\* C9: the new files of a comparison are the deleted files of the comparison
\* in the other direction, and its deleted files are the other's new files.
C9_SwapNewDeleted ==
    Compared =>
        /\ SetOf(ret.result.NewFiles) = SetOf(Swapped.DeletedFiles)
        /\ SetOf(ret.result.DeletedFiles) = SetOf(Swapped.NewFiles)

\* a comparison with a new file, next to a source file that is not new
\* because the target holds a directory at its relative path
C9_Witness ==
    /\ Compared
    /\ ret.result.NewFiles # <<>>
    /\ \E f \in SourceRows : \E t \in TargetRows :
          t.relative_path = f.relative_path /\ ~f.is_directory /\ t.is_directory

\* C10: the relative paths of the updated files are the same in both
\* directions of the comparison.
C10_UpdatedIsSymmetric ==
    Compared =>
        RelsOf(SetOf(ret.result.UpdatedFiles)) = RelsOf(SetOf(Swapped.UpdatedFiles))

\* the source row is one compare must hint at, as C11 has it
C11_Hinted(s) ==
    /\ s \in SetOf(ret.result.NewFiles)
    /\ s.checksum # NoChecksum
    /\ \E t \in TargetRows : ~t.is_directory /\ t.checksum = s.checksum

\* C11: compare records a duplicate hint for a relative path exactly when
\* the source row at that path is new, has a non-empty checksum, and some
\* non-directory row of the target has the same checksum; the hint is then
\* the set of target rows with that checksum, and a source row that is not
\* new has no hint.
C11_DuplicateHints ==
    Compared =>
        LET hints == ret.result.DuplicateFiles
        IN  /\ DOMAIN hints \subseteq RelsOf(SourceRows)
            /\ \A s \in SourceRows :
                  /\ s.relative_path \in DOMAIN hints <=> C11_Hinted(s)
                  /\ s.relative_path \in DOMAIN hints =>
                        SetOf(hints[s.relative_path])
                           = {t \in TargetRows : t.checksum = s.checksum}
                  /\ s \notin SetOf(ret.result.NewFiles)
                        => s.relative_path \notin DOMAIN hints

-----------------------------------------------------------------------------
(* Properties of FindDuplicates *)

\* FindDuplicates returned, with every index listed
FoundDuplicates == ret.op = "duplicates" /\ ret.err = "nil" /\ ret.failed = {}

\* the non-directory rows of the store with this checksum
FilesWithChecksum(sum) == {r \in files : ~r.is_directory /\ r.checksum = sum}

\* C12: FindDuplicates returns a group for a checksum exactly when the
\* checksum is not empty and at least two non-directory rows of the store,
\* of whatever index, have it; the group holds exactly those rows, each
\* once.
C12_DuplicateGroups ==
    FoundDuplicates =>
        /\ DOMAIN ret.result \subseteq Checksums \ {NoChecksum}
        /\ \A sum \in Checksums \ {NoChecksum} :
              /\ sum \in DOMAIN ret.result
                    <=> Cardinality(FilesWithChecksum(sum)) >= 2
              /\ sum \in DOMAIN ret.result =>
                    /\ SetOf(ret.result[sum]) = FilesWithChecksum(sum)
                    /\ Len(ret.result[sum]) = Cardinality(FilesWithChecksum(sum))

\* a group of rows of two indexes, beside a checksum that a single file and
\* a directory hold and that has no group
C12_Witness ==
    /\ FoundDuplicates
    /\ \E sum \in DOMAIN ret.result :
          \E r1, r2 \in SetOf(ret.result[sum]) : r1.index_id # r2.index_id
    /\ \E sum \in Checksums \ {NoChecksum} :
          /\ Cardinality(FilesWithChecksum(sum)) = 1
          /\ \E r \in files : r.is_directory /\ r.checksum = sum

\* the rows a call of FindFiles returned
Found == {ret.result[i].FileEntry : i \in 1..Len(ret.result)}

\* C13: an empty checksum is never shared content: no group of
\* FindDuplicates is keyed by it or holds a row with it, no duplicate hint of
\* compare is recorded for a source row with it or names a target row with
\* it, and the duplicates-only query returns no row with it.
C13_EmptyChecksumIsNotShared ==
    /\ (ret.op = "duplicates" /\ ret.err = "nil") =>
          /\ NoChecksum \notin DOMAIN ret.result
          /\ \A sum \in DOMAIN ret.result :
                \A r \in SetOf(ret.result[sum]) : r.checksum # NoChecksum
    /\ Compared =>
          \A p \in DOMAIN ret.result.DuplicateFiles :
              /\ \A s \in SourceRows : s.relative_path = p => s.checksum # NoChecksum
              /\ \A t \in SetOf(ret.result.DuplicateFiles[p]) : t.checksum # NoChecksum
    /\ (ret.op = "find" /\ ret.opts.OnlyDuplicates) =>
          \A r \in Found : r.checksum # NoChecksum

\* the duplicates-only query returned rows from a store in which two files
\* of the same size and time have no checksum
C13_Witness ==
    /\ ret.op = "find" /\ ret.opts.OnlyDuplicates
    /\ Found # {}
    /\ \E r1, r2 \in files :
          /\ r1 # r2 /\ ~r1.is_directory /\ ~r2.is_directory
          /\ r1.checksum = NoChecksum /\ r2.checksum = NoChecksum
          /\ r1.size = r2.size /\ r1.mod_time = r2.mod_time

(***************************************************************************)
(* The catalog table by text: DB.FindIndexByNameOrID.                      *)
(***************************************************************************)

\* the character c, n times
Rep(c, n) == [i \in 1..n |-> c]

\* an index row with its name
NamedIndex(name, root) ==
    [name |-> name, root_path |-> root, total_files |-> 0, total_size |-> 0,
     last_sync |-> 0]

\* the shortest identifier the prefix step accepts
MinPrefixLen == 8

\* the ids of two indexes: they share their first seven characters
IdX == Rep("a", 8) \o <<"1">>
IdY == Rep("a", 7) \o <<"b", "2">>

\* the names an index is created with: a word, the id of the other index,
\* and the first eight characters of IdX
IndexNames == {<<"d">>, IdY, Rep("a", 8)}

\* no index
NoIndex == <<>>

\* DB.GetIndex: the row WHERE id = ?
GetIndex(idx, id) == {i \in DOMAIN idx : i = id}

\* the rows WHERE name = ?
IndexesNamed(idx, name) == {i \in DOMAIN idx : idx[i].name = name}

\* the rows WHERE id LIKE ?
IndexesLike(idx, pattern) == {i \in DOMAIN idx : Like(pattern, i)}

\* DB.FindIndexByNameOrID: the rows the call may return (LIMIT 1 takes any
\* one row of a step), none when it returns "index not found"
FindIndexByNameOrID(idx, identifier) ==
    IF GetIndex(idx, identifier) # {} THEN GetIndex(idx, identifier)
    ELSE IF IndexesNamed(idx, identifier) # {} THEN IndexesNamed(idx, identifier)
    ELSE IF Len(identifier) >= MinPrefixLen
         THEN IndexesLike(idx, identifier \o <<"%">>)
    ELSE {}

\* the identifiers the commands pass: both ids, a name, the first eight and
\* the first seven characters of IdX, eight characters with a LIKE wildcard,
\* eight characters in the other case, eight wildcards, and eight
\* characters no id begins with
Identifiers ==
    {IdX, IdY, <<"d">>, Rep("a", 8), Rep("a", 7), Rep("a", 7) \o <<"_">>,
     Rep("A", 8), Rep("_", 8), Rep("a", 7) \o <<"e">>}

ResolveRet(op, err, identifier, index) ==
    [op |-> op, err |-> err, identifier |-> identifier, index |-> index]

\* a store with any of the two indexes under any of the names
CatalogInit ==
    /\ fs = InitFs
    /\ files = {}
    /\ \E ids \in SUBSET {IdX, IdY} :
          \E names \in [ids -> IndexNames] :
              indexes = [i \in ids |-> NamedIndex(names[i], Root)]
    /\ now = 1
    /\ fsOps = 0
    /\ faults = 0
    /\ budget = Budget(0, 0, 0)
    /\ run = NoRun
    /\ ret = ResolveRet("none", "nil", NoIndex, NoIndex)

\* a call of DB.FindIndexByNameOrID
Resolve(identifier) ==
    LET found == FindIndexByNameOrID(indexes, identifier)
    IN  /\ IF found = {}
           THEN ret' = ResolveRet("resolve", "index not found", identifier, NoIndex)
           ELSE \E i \in found : ret' = ResolveRet("resolve", "nil", identifier, i)
        /\ UNCHANGED <<fs, files, indexes, now, fsOps, faults, budget, run>>

CatalogNext == \E identifier \in Identifiers : Resolve(identifier)

CatalogSpec == CatalogInit /\ [][CatalogNext]_vars

\* a call of FindIndexByNameOrID returned
Resolved == ret.op = "resolve"

\* the ids that begin with the identifier, character by character
BeginWith(identifier) ==
    {i \in DOMAIN indexes :
        /\ Len(identifier) <= Len(i)
        /\ SubSeq(i, 1, Len(identifier)) = identifier}

\* C21: FindIndexByNameOrID returns the index whose id is the identifier;
\* else an index whose name is the identifier; else, for an identifier of
\* at least 8 characters, an index whose id begins with the identifier
\* taken literally; else the error "index not found".
C21_Precedence ==
    Resolved =>
        LET x == ret.identifier
            byID == {i \in DOMAIN indexes : i = x}
            byName == {i \in DOMAIN indexes : indexes[i].name = x}
            byPrefix == IF Len(x) >= MinPrefixLen THEN BeginWith(x) ELSE {}
            expected == IF byID # {} THEN byID
                        ELSE IF byName # {} THEN byName
                        ELSE byPrefix
        IN  IF expected = {} THEN ret.err # "nil"
            ELSE ret.err = "nil" /\ ret.index \in expected

\* C21 for identifiers of hexadecimal digits in the case of the ids
C21_PrecedenceOfPlainIdentifiers ==
    (Resolved /\ \A k \in 1..Len(ret.identifier) :
                    ret.identifier[k] \notin {"_", "%", "A"})
        => C21_Precedence

(***************************************************************************)
(* DB.FindFiles over stores whose paths, sizes and times tell the          *)
(* conditions apart.                                                       *)
(***************************************************************************)

\* a row of a file or directory at a relative path of an index
FindRow(root, id, rel, size, mt, sum, isDir) ==
    FileEntry(root \o rel, rel, size, mt, sum, id, 0, isDir)

\* what the first index may hold under its root: the files a_b, axb and A,
\* and the directory d with its file f
SourceTrees ==
    {{FindRow(Root, IndexID, <<<<"a", "_", "b">>>>, 1, 0, Sha256Hex(<<1>>), FALSE)},
     {FindRow(Root, IndexID, <<<<"a", "x", "b">>>>, 2, 3, Sha256Hex(<<1>>), FALSE)},
     {FindRow(Root, IndexID, <<<<"A">>>>, 3, 5, Sha256Hex(<<2>>), FALSE)},
     {FindRow(Root, IndexID, <<nD>>, 0, 0, NoChecksum, TRUE),
      FindRow(Root, IndexID, <<nD, nF>>, 2, 0, NoChecksum, FALSE)}}

\* what the second index may hold under its root: the file a, the directory
\* ad with its file df, and the directories e and e/d with the file e/d/f
TargetTrees ==
    {{FindRow(TargetRoot, TargetID, <<nA>>, 1, 4, Sha256Hex(<<2>>), FALSE)},
     {FindRow(TargetRoot, TargetID, <<<<"a", "d">>>>, 0, 0, NoChecksum, TRUE),
      FindRow(TargetRoot, TargetID, <<<<"a", "d">>, <<"d", "f">>>>, 0, 0, NoChecksum, FALSE)},
     {FindRow(TargetRoot, TargetID, <<nE>>, 0, 0, NoChecksum, TRUE),
      FindRow(TargetRoot, TargetID, <<nE, nD>>, 0, 0, NoChecksum, TRUE),
      FindRow(TargetRoot, TargetID, <<nE, nD, nF>>, 2, 1, Sha256Hex(<<1>>), FALSE)}}

FindStores ==
    {UNION (s \cup t) : s \in SUBSET SourceTrees, t \in SUBSET TargetTrees}

\* the patterns of --name: a literal underscore, one character, a run at
\* the end, a lower-case letter, and a path
NameGlobs ==
    {<<"a", "_", "b">>, <<"a", "?", "b">>, <<"a", "*">>, nA, <<"d", "/", "f">>,
     <<"*", "f">>}

\* the patterns of --dir: a name, a run inside the name, the name in upper
\* case, the name of a file, and one character before a letter
DirGlobs == {nD, <<"a", "*", "f">>, <<"D">>, nF, nE, <<"?", "d">>}

NoOptions == FindOptions(<<>>, <<>>, NoChecksum, 0, 0, {}, FALSE, NoTime, NoTime, "")

\* the options of the calls of FindFiles, one kind of condition at a time
\* and then several together: the sizes are those of the rows and one more,
\* the instants the start of the first day, its second second and the start
\* of the second day
QueryChoices ==
    {[NoOptions EXCEPT !.NamePattern = g] : g \in NameGlobs}
    \cup {[NoOptions EXCEPT !.DirectoryPattern = g] : g \in DirGlobs}
    \cup {[NoOptions EXCEPT !.MinSize = lo, !.MaxSize = hi, !.FileType = type] :
            lo \in 0..3, hi \in 0..3, type \in {"", "file"}}
    \cup {[NoOptions EXCEPT !.ModifiedSince = since, !.ModifiedUntil = until] :
            since \in {NoTime, 0, TicksPerSecond, TicksPerDay},
            until \in {NoTime, 0, TicksPerSecond, TicksPerDay}}
    \cup {[NoOptions EXCEPT !.FileType = type, !.IndexIDs = ids] :
            type \in {"file", "dir", "directory", "all"}, ids \in {{}, {TargetID}}}
    \cup {[NoOptions EXCEPT !.OnlyDuplicates = dups, !.IndexIDs = ids, !.Checksum = sum] :
            dups \in BOOLEAN, ids \in {{}, {IndexID}, {TargetID}},
            sum \in {NoChecksum, Sha256Hex(<<1>>)}}
    \cup {[NoOptions EXCEPT !.NamePattern = <<"a", "*">>, !.MinSize = 1,
                            !.MaxSize = 2, !.IndexIDs = ids, !.Checksum = sum] :
            ids \in {{}, {IndexID}}, sum \in {NoChecksum, Sha256Hex(<<1>>)}}

FindInit ==
    /\ fs = InitFs
    /\ files \in FindStores
    /\ indexes = [i \in {IndexID, TargetID} |->
                    Index0(IF i = IndexID THEN Root ELSE TargetRoot)]
    /\ now = 1
    /\ fsOps = 0
    /\ faults = 0
    /\ budget = Budget(0, 0, 0)
    /\ run = NoRun
    /\ ret = FindRet("none", "nil", NoOptions, <<>>)

\* The find command with a size filter (src/cmd/find.go).  The filter is an
\* operator and a whole number of bytes; the unit is left out (multiplier 1).

\* the operators the pattern ^([><=]+) lets through that are tried here
SizeOperators == {">", ">=", "<", "<=", "=", "=<"}

\* parseSizeFilter: <<minSize, maxSize, err>>
parseSizeFilter(operator, sizeBytes) ==
    CASE operator = ">"  -> <<sizeBytes + 1, 0, "nil">>
      [] operator = ">=" -> <<sizeBytes, 0, "nil">>
      [] operator = "<"  -> <<0, sizeBytes - 1, "nil">>
      [] operator = "<=" -> <<0, sizeBytes, "nil">>
      [] operator = "="  -> <<sizeBytes, sizeBytes, "nil">>
      [] OTHER           -> <<0, 0, "invalid operator">>

SizeRet(op, err, operator, value, opts, result) ==
    [op |-> op, err |-> err, operator |-> operator, value |-> value,
     opts |-> opts, result |-> result]

\* the find command given --size and --type only
FindBySize(operator, value, fileType) ==
    LET parsed == parseSizeFilter(operator, value)
        opts == [NoOptions EXCEPT
                    !.FileType = IF fileType = "" THEN "all" ELSE fileType,
                    !.MinSize = parsed[1], !.MaxSize = parsed[2]]
    IN  /\ ret' = IF parsed[3] # "nil"
                  THEN SizeRet("findSize", parsed[3], operator, value, NoOptions, <<>>)
                  ELSE SizeRet("findSize", "nil", operator, value, opts,
                               FindFiles(files, indexes, opts))
        /\ UNCHANGED <<fs, files, indexes, now, fsOps, faults, budget, run>>

FindNext ==
    \/ \E opts \in QueryChoices : Find(opts)
    \/ \E operator \in SizeOperators, value \in 0..2 : FindBySize(operator, value, "")

FindSpec == FindInit /\ [][FindNext]_vars

RECURSIVE GlobMatches(_, _)
\* the shell-style match: * is any run of characters, ? any one character,
\* every other character itself
GlobMatches(glob, str) ==
    IF glob = <<>> THEN str = <<>>
    ELSE IF Head(glob) = "*"
         THEN GlobMatches(Tail(glob), str)
              \/ (str # <<>> /\ GlobMatches(glob, Tail(str)))
    ELSE /\ str # <<>>
         /\ Head(glob) = "?" \/ Head(glob) = Head(str)
         /\ GlobMatches(Tail(glob), Tail(str))

\* some segment of the relative path matches the glob as a whole
SegmentMatches(glob, rel) == \E k \in 1..Len(rel) : GlobMatches(glob, rel[k])

\* a call of FindFiles returned
FindReturned == ret.op = "find" /\ ret.err = "nil"

\* the rows with the checksum of f, over the whole store
Carriers(f) == {r \in files : r.checksum = f.checksum}

\* f meets every predicate the options supply
Satisfies(opts, f) ==
    /\ opts.NamePattern # <<>> =>
          GlobMatches(opts.NamePattern, RelString(f.relative_path))
    /\ opts.DirectoryPattern # <<>> =>
          SegmentMatches(opts.DirectoryPattern, f.relative_path)
    /\ opts.Checksum # NoChecksum => f.checksum = opts.Checksum
    /\ opts.MinSize > 0 => f.size >= opts.MinSize
    /\ opts.MaxSize > 0 => f.size <= opts.MaxSize
    /\ opts.FileType = "file" => ~f.is_directory
    /\ opts.FileType \in {"dir", "directory"} => f.is_directory
    /\ opts.ModifiedSince # NoTime => f.mod_time >= opts.ModifiedSince
    /\ opts.ModifiedUntil # NoTime => f.mod_time <= opts.ModifiedUntil
    /\ opts.IndexIDs # {} => f.index_id \in opts.IndexIDs
    /\ opts.OnlyDuplicates =>
          f.checksum # NoChecksum /\ Cardinality(Carriers(f)) > 1

\* C22: FindFiles returns exactly the rows that meet every supplied
\* predicate: no row that fails one of them, every row that meets them all,
\* the size bounds included.
C22_Conjunction ==
    FindReturned => Found = {f \in files : Satisfies(ret.opts, f)}

\* C22 for calls that supply no pattern and no time
C22_ConjunctionWithoutPatternsAndTimes ==
    (/\ FindReturned
     /\ ret.opts.NamePattern = <<>> /\ ret.opts.DirectoryPattern = <<>>
     /\ ret.opts.ModifiedSince = NoTime /\ ret.opts.ModifiedUntil = NoTime)
        => Found = {f \in files : Satisfies(ret.opts, f)}

\* C23: with a name pattern alone, FindFiles returns a row if and only if
\* its relative path matches the glob: * any run of characters, ? one
\* character, every other character, %, _ and \ among them, only itself.
C23_NameGlob ==
    (FindReturned /\ ret.opts.NamePattern # <<>>
                  /\ ret.opts = [NoOptions EXCEPT !.NamePattern = ret.opts.NamePattern])
        => Found = {f \in files :
                      GlobMatches(ret.opts.NamePattern, RelString(f.relative_path))}

\* C24: with a directory pattern alone, FindFiles returns a row if and only
\* if one of the segments of its relative path, at any depth, matches the
\* glob as a whole.
C24_DirectoryGlob ==
    (FindReturned /\ ret.opts.DirectoryPattern # <<>>
                  /\ ret.opts = [NoOptions EXCEPT
                                    !.DirectoryPattern = ret.opts.DirectoryPattern])
        => Found = {f \in files :
                      SegmentMatches(ret.opts.DirectoryPattern, f.relative_path)}

\* C25: with OnlyDuplicates, FindFiles returns only rows whose non-empty
\* checksum more than one row of the whole store carries, and it returns
\* every such row that meets the other predicates, wherever the other
\* carriers are and whether or not they meet the other predicates.
C25_DuplicatesOverWholeStore ==
    (FindReturned /\ ret.opts.OnlyDuplicates) =>
        /\ \A f \in Found :
              f.checksum # NoChecksum /\ Cardinality(Carriers(f)) > 1
        /\ \A f \in files :
              (/\ Satisfies([ret.opts EXCEPT !.OnlyDuplicates = FALSE], f)
               /\ f.checksum # NoChecksum
               /\ Cardinality(Carriers(f)) > 1) => f \in Found

\* a duplicates-only call restricted to one index returned a row whose
\* checksum no other row of that index carries
C25_Witness ==
    /\ FindReturned /\ ret.opts.OnlyDuplicates
    /\ ret.opts.IndexIDs # {}
    /\ \E f \in Found :
          \A r \in Carriers(f) \ {f} : r.index_id \notin ret.opts.IndexIDs

(***************************************************************************)
(* The start of Index and Reindex: the counting pass, the select with its  *)
(* timeout, the progress bar, and the main walk.                           *)
(***************************************************************************)

\* the number of runs explored in one behaviour
CountRuns == 2

\* the trees counted: the initial one, and it with the directory d unreadable
CountTrees == {InitFs, [InitFs EXCEPT ![pD].mode = "-wx"]}

CountInit ==
    /\ fs \in CountTrees
    /\ files = {}
    /\ indexes = [i \in {IndexID} |-> Index0(Root)]
    /\ now = 1
    /\ fsOps = 0
    /\ faults = 0
    /\ budget = Budget(CountRuns, 0, 0)
    /\ ret = Ret("none", "nil", NoPath, NoStats, FALSE)
    /\ run = NoRun

\* Index or Reindex is called: the variables are made, the goroutine is
\* launched and the main goroutine reaches the select, which arms the timer
StartRun(op, cs) ==
    /\ run.pc \in {"idle", "returned"}
    /\ now <= budget.runs
    /\ run' = Run(op, cs, "select", "walking", 1, 0, 0, "armed", FALSE, "none", FALSE, FALSE)
    /\ UNCHANGED <<fs, files, indexes, now, fsOps, faults, budget, ret>>

\* one call of the walk function of the counting goroutine
CountStep ==
    /\ run.counter = "walking"
    /\ run.next <= Len(Walk(fs, Root))
    /\ LET ev == Walk(fs, Root)[run.next]
           counted == WalkFnHead(ev) = "visit" /\ ~InfoIsDir(ev.info)
       IN  run' = [run EXCEPT !.next = @ + 1,
                              !.totalFiles = IF counted THEN @ + 1 ELSE @]
    /\ UNCHANGED <<fs, files, indexes, now, fsOps, faults, budget, ret>>

\* countDone <- true: the channel has room for one message
CountSend ==
    /\ run.counter = "walking"
    /\ run.next > Len(Walk(fs, Root))
    /\ run.countDone = 0
    /\ run' = [run EXCEPT !.counter = "done", !.countDone = 1]
    /\ UNCHANGED <<fs, files, indexes, now, fsOps, faults, budget, ret>>

\* the minute of time.After is over
TimerFires ==
    /\ run.pc = "select"
    /\ run.timer = "armed"
    /\ run' = [run EXCEPT !.timer = "fired"]
    /\ UNCHANGED <<fs, files, indexes, now, fsOps, faults, budget, ret>>

\* case <-countDone
SelectDone ==
    /\ run.pc = "select"
    /\ run.countDone = 1
    /\ run' = [run EXCEPT !.pc = "bar", !.countDone = 0, !.received = TRUE]
    /\ UNCHANGED <<fs, files, indexes, now, fsOps, faults, budget, ret>>

\* case <-time.After(1 * time.Minute)
SelectTimeout ==
    /\ run.pc = "select"
    /\ run.timer = "fired"
    /\ run' = [run EXCEPT !.pc = "bar", !.countingTimedOut = TRUE]
    /\ UNCHANGED <<fs, files, indexes, now, fsOps, faults, budget, ret>>

\* the progress bar made from totalFiles whether or not counting timed out
CreateBarFromTotal ==
    /\ run.pc = "bar"
    /\ run' = [run EXCEPT !.pc = "walk", !.readTotal = TRUE,
                          !.bar = IF run.totalFiles > 0 THEN run.totalFiles ELSE "none"]
    /\ UNCHANGED <<fs, files, indexes, now, fsOps, faults, budget, ret>>

\* the progress bar: indeterminate after the timeout; else of totalFiles,
\* or none when totalFiles is 0
CreateBar ==
    /\ run.pc = "bar"
    /\ run' = IF run.countingTimedOut
              THEN [run EXCEPT !.pc = "walk", !.bar = "indeterminate"]
              ELSE [run EXCEPT !.pc = "walk", !.readTotal = TRUE,
                               !.bar = IF run.totalFiles > 0 THEN run.totalFiles
                                       ELSE "none"]
    /\ UNCHANGED <<fs, files, indexes, now, fsOps, faults, budget, ret>>

\* the main walk and the rest of Index or Reindex
MainWalk ==
    /\ run.pc = "walk"
    /\ LET r == IF run.op = "index"
                THEN IndexResult(fs, files, indexes, Root, IndexID, run.cs, now, NoFault)
                ELSE ReindexResult(fs, files, indexes, Root, IndexID, run.cs, now, NoFault)
       IN  /\ files' = r.tbl
           /\ indexes' = r.idx
           /\ ret' = r.ret
    /\ now' = now + 1
    /\ run' = [run EXCEPT !.pc = "returned"]
    /\ UNCHANGED <<fs, fsOps, faults, budget>>

CountNext ==
    \/ \E op \in {"index", "reindex"}, cs \in BOOLEAN : StartRun(op, cs)
    \/ CountStep
    \/ CountSend
    \/ TimerFires
    \/ SelectDone
    \/ SelectTimeout
    \/ CreateBar
    \/ MainWalk

\* the timer fires and the main goroutine runs; nothing makes the counting
\* goroutine advance
CountSpec ==
    /\ CountInit /\ [][CountNext]_vars
    /\ WF_vars(TimerFires)
    /\ WF_vars(SelectDone \/ SelectTimeout)
    /\ WF_vars(CreateBar)

\* the files the walk function of the counting goroutine counts
CountedFiles == {ev \in VisitedInfo(fs, Root) : ~InfoIsDir(ev.info)}

\* the main walk is due or done
WalkStarted == run.pc \in {"walk", "returned"}

\* how the main walk starts: after the timeout with an indeterminate bar
\* and totalFiles not read and countDone not received; else after the
\* counting goroutine sent, with the bar of the files counted
C26_StartsKnowingOrTimedOut ==
    WalkStarted =>
        IF run.countingTimedOut
        THEN /\ run.timer = "fired"
             /\ run.bar = "indeterminate"
             /\ ~run.readTotal /\ ~run.received
        ELSE /\ run.received /\ run.counter = "done"
             /\ run.totalFiles = Cardinality(CountedFiles)
             /\ run.bar = IF run.totalFiles > 0 THEN run.totalFiles ELSE "none"

\* C26: in Index and Reindex the main walk always starts, after the
\* counting goroutine delivered its total or after the timeout; after the
\* timeout the progress is indeterminate and a total delivered later is
\* neither read nor waited for.
C26_MainWalkStarts ==
    /\ [](C26_StartsKnowingOrTimedOut)
    /\ (run.pc = "select") ~> WalkStarted

\* the main walk started after the timeout, and the counting goroutine has
\* delivered since: its message stays in the channel
C26_Witness ==
    /\ WalkStarted
    /\ run.countingTimedOut
    /\ run.counter = "done" /\ run.countDone = 1
    /\ run.totalFiles > 0

(***************************************************************************)
(* The index command: generateIndexID and the creation of the index.       *)
(***************************************************************************)

\* the number of runs of the command explored in one behaviour
CommandRuns == 3


\* the tree the command is run on: the directory "c:", a directory d in
\* it, and a directory d under "/"
CommandFs ==
    [p \in {<< <<"c", ":">> >>, << <<"c", ":">>, nD >>, <<nD>>} |-> Dir(0, 0)]

\* the values of machine_id in the configuration: two words, and a word
\* with ":/c" after it
MachineIDs == {<<"a">>, <<"b">>, <<"a", ":", "/", "c">>}

\* generateIndexID: the hash, in hexadecimal, of the machine id, a colon and
\* the path; no two strings have the same hash
generateIndexID(machineID, path) ==
    Sha256Hex(machineID \o <<":">> \o PathString(path))

\* the row of models.Index the command creates
NewIndex(name, root, machineID) ==
    [name |-> name, root_path |-> root, machine_id |-> machineID,
     total_files |-> 0, total_size |-> 0, last_sync |-> 0]

CommandRet(op, err, machineID, path, id, existed) ==
    [op |-> op, err |-> err, machine |-> machineID, path |-> path, id |-> id,
     existed |-> existed]

CommandInit ==
    /\ fs = CommandFs
    /\ files = {}
    /\ indexes = << >>
    /\ now = 1
    /\ fsOps = 0
    /\ faults = 0
    /\ budget = Budget(CommandRuns, 0, 0)
    /\ run = NoRun
    /\ ret = CommandRet("none", "nil", <<>>, NoPath, NoIndex, FALSE)

\* `stormindexer index path [--checksums] [--force]` under a configuration
\* with the given machine id: the index of the generated id is created
\* unless it exists, the tree is indexed and the statistics are updated; an
\* existing index is left alone unless --force is given
IndexCommand(machineID, path, cs, force) ==
    LET indexID == generateIndexID(machineID, path)
        existed == GetIndex(indexes, indexID) # {}
        created == IF existed THEN indexes
                   ELSE [i \in DOMAIN indexes \cup {indexID} |->
                           IF i = indexID THEN NewIndex(Base(path), path, machineID)
                           ELSE indexes[i]]
        r == IndexResult(fs, files, created, path, indexID, cs, now, NoFault)
    IN  /\ now <= budget.runs
        /\ IF existed /\ ~force
           THEN /\ ret' = CommandRet("indexCmd", "exists", machineID, path, indexID, TRUE)
                /\ UNCHANGED <<files, indexes>>
           ELSE /\ files' = r.tbl
                /\ indexes' = r.idx
                /\ ret' = CommandRet("indexCmd", r.ret.err, machineID, path, indexID, existed)
        /\ now' = now + 1
        /\ UNCHANGED <<fs, fsOps, faults, budget, run>>

CommandNext ==
    \E machineID \in MachineIDs, path \in DOMAIN CommandFs,
       cs \in BOOLEAN, force \in BOOLEAN : IndexCommand(machineID, path, cs, force)

CommandSpec == CommandInit /\ [][CommandNext]_vars

\* C27: the id of an index is a function of the machine id and the root
\* path: every index has the id generated from its machine id and root
\* path, and an index that has the id generated for a machine id and a root
\* path has that machine id and that root path.
C27_IdentifierOfPair ==
    /\ \A i \in DOMAIN indexes :
          i = generateIndexID(indexes[i].machine_id, indexes[i].root_path)
    /\ (ret.op = "indexCmd" /\ ret.id \in DOMAIN indexes) =>
          /\ indexes[ret.id].machine_id = ret.machine
          /\ indexes[ret.id].root_path = ret.path

\* C27 for machine ids without a colon
C27_IdentifierOfPairWithoutColon ==
    (\A i \in DOMAIN indexes : \A k \in 1..Len(indexes[i].machine_id) :
        indexes[i].machine_id[k] # ":")
    /\ (\A k \in 1..Len(ret.machine) : ret.machine[k] # ":")
        => C27_IdentifierOfPair

\* the non-directory rows with this checksum in the indexes whose listing
\* did not fail
ListedFilesWithChecksum(sum) ==
    {r \in FilesWithChecksum(sum) : r.index_id \notin ret.failed}

\* C28: when the listing of an index fails, FindDuplicates passes over that
\* index and returns, without error, the groups of the rows of the other
\* indexes: a group for each checksum at least two of their non-directory
\* rows have, holding exactly those rows.
C28_FailedListingIsSkipped ==
    (ret.op = "duplicates" /\ ret.failed # {}) =>
        /\ ret.err = "nil"
        /\ DOMAIN ret.result \subseteq Checksums \ {NoChecksum}
        /\ \A sum \in Checksums \ {NoChecksum} :
              /\ sum \in DOMAIN ret.result
                    <=> Cardinality(ListedFilesWithChecksum(sum)) >= 2
              /\ sum \in DOMAIN ret.result =>
                    SetOf(ret.result[sum]) = ListedFilesWithChecksum(sum)

\* the listing of an index failed, a group was returned, and a file of the
\* index passed over has the checksum of the group
C28_Witness ==
    /\ ret.op = "duplicates" /\ ret.failed # {}
    /\ \E sum \in DOMAIN ret.result :
          \E r \in FilesWithChecksum(sum) : r.index_id \in ret.failed

(***************************************************************************)
(* models.CalculateChecksum, called on the files of a changing tree.       *)
(***************************************************************************)

\* the number of filesystem changes explored in one behaviour
ChecksumFsOps == 2

ChecksumRet(op, p, q, first, second) ==
    [op |-> op, path |-> p, other |-> q, first |-> first, second |-> second]

ChecksumInit ==
    /\ fs = InitFs
    /\ files = {}
    /\ indexes = [i \in {IndexID} |-> Index0(Root)]
    /\ now = 1
    /\ fsOps = 0
    /\ faults = 0
    /\ budget = Budget(0, ChecksumFsOps, 0)
    /\ run = NoRun
    /\ ret = ChecksumRet("none", NoPath, NoPath, CalculateChecksum(InitFs, Root),
                         CalculateChecksum(InitFs, Root))

\* CalculateChecksum is called on a path and then on a path, the same or
\* another
ChecksumTwice(p, q) ==
    /\ ret' = ChecksumRet("checksum", p, q, CalculateChecksum(fs, p),
                          CalculateChecksum(fs, q))
    /\ UNCHANGED <<fs, files, indexes, now, fsOps, faults, budget, run>>

ChecksumNext ==
    \/ \E p \in Paths, q \in Paths : ChecksumTwice(p, q)
    \/ \E p \in WritePaths, data \in Contents, mt \in MTimes : WriteFile(p, data, mt)
    \/ \E c \in Chmods : Chmod(c[1], c[2])

ChecksumSpec == ChecksumInit /\ [][ChecksumNext]_vars

\* the file at p can be read
Readable(p) == fs[p].kind = "file" /\ fs[p].mode = "rwx"

\* C29: CalculateChecksum depends on the bytes alone: two calls on files
\* with the same bytes, of whatever path and modification time, and two
\* calls on the same unchanged file return the same checksum, calls on
\* files with different bytes return different checksums, and a call on a
\* file that cannot be read returns an error and no checksum.
C29_ChecksumOfBytes ==
    ret.op = "checksum" =>
        /\ (Readable(ret.path) /\ Readable(ret.other)) =>
              /\ ret.first.err = "nil" /\ ret.second.err = "nil"
              /\ ret.first.sum # NoChecksum /\ ret.second.sum # NoChecksum
              /\ ret.first.sum = ret.second.sum
                    <=> fs[ret.path].data = fs[ret.other].data
        /\ ~Readable(ret.path) =>
              ret.first.err # "nil" /\ ret.first.sum = NoChecksum
        /\ ~Readable(ret.other) =>
              ret.second.err # "nil" /\ ret.second.sum = NoChecksum

\* two files of the same bytes at different paths with different
\* modification times were given the same checksum
C29_Witness ==
    /\ ret.op = "checksum"
    /\ ret.path # ret.other
    /\ Readable(ret.path) /\ Readable(ret.other)
    /\ fs[ret.path].data = fs[ret.other].data
    /\ fs[ret.path].mtime # fs[ret.other].mtime
    /\ ret.first.sum = ret.second.sum

\* the checksum of what is at p: of the bytes of a file that can be read,
\* and none for anything else
ChecksumAt(p) ==
    IF fs[p].kind = "file" /\ fs[p].mode = "rwx" THEN Sha256Hex(fs[p].data)
    ELSE NoChecksum

\* what C30 says of the row r written for the updated object ev whose row
\* was old, in a run with or without checksums
C30_Recomputed(old, r, ev, cs) ==
    IF cs \/ old.checksum = NoChecksum
    THEN r.checksum = ChecksumAt(ev.path)
    ELSE r.checksum = old.checksum

\* C30: for every object a Reindex finds updated, the checksum of its row
\* is computed anew from the object when checksums were asked for or the
\* row had none, and is otherwise the checksum the row had before.
C30_UpdatedChecksum ==
    [][(now' # now /\ ret'.op = "reindex" /\ ret'.err \in {"nil", "stats"}) =>
          \A ev \in VisitedInfo(fs, Root) :
              \A old \in GetFile(files, ev.path, IndexID) :
                  C5_Differs(old, ev) =>
                      \E r \in GetFile(files', ev.path, IndexID) :
                          C30_Recomputed(old, r, ev, ret'.checksums)]_vars

\* C30 for the objects that are files
C30_UpdatedChecksumOfFiles ==
    [][(now' # now /\ ret'.op = "reindex" /\ ret'.err \in {"nil", "stats"}) =>
          \A ev \in VisitedInfo(fs, Root) :
              \A old \in GetFile(files, ev.path, IndexID) :
                  (C5_Differs(old, ev) /\ ~InfoIsDir(ev.info)) =>
                      \E r \in GetFile(files', ev.path, IndexID) :
                          C30_Recomputed(old, r, ev, ret'.checksums)]_vars

\* C31: the row of an object a Reindex finds added has the checksum Index
\* gives the object: computed from the file when checksums were asked for,
\* and empty when they were not.
C31_AddedChecksum ==
    [][(now' # now /\ ret'.op = "reindex" /\ ret'.err \in {"nil", "stats"}) =>
          \A ev \in VisitedInfo(fs, Root) :
              C5_Added(Rows(files, IndexID), ev) =>
                  \E r \in GetFile(files', ev.path, IndexID) :
                      r.checksum = IndexEntry(fs, Root, IndexID, ev,
                                              ret'.checksums, now).checksum]_vars

\* C31 for the runs of Reindex with checksums
C31_AddedChecksumWhenRequested ==
    [][(now' # now /\ ret'.op = "reindex" /\ ret'.err \in {"nil", "stats"}
        /\ ret'.checksums) =>
          \A ev \in VisitedInfo(fs, Root) :
              C5_Added(Rows(files, IndexID), ev) =>
                  \E r \in GetFile(files', ev.path, IndexID) :
                      r.checksum = ChecksumAt(ev.path)]_vars

\* C32: whatever runs of Index and Reindex and changes of the tree have
\* happened, no row of a directory has a checksum.
C32_DirectoriesHaveNoChecksum ==
    \A r \in files : r.is_directory => r.checksum = NoChecksum

\* C33: a Reindex leaves the row of every object it visits untouched when
\* the row has the size of the object and its modification time lies in the
\* same second: all the fields of the row, the checksum and last_scanned
\* among them, are after the run what they were before.
C33_UnchangedIsNotWritten ==
    [][(now' # now /\ ret'.op = "reindex") =>
          \A ev \in VisitedInfo(fs, Root) :
              \A old \in GetFile(files, ev.path, IndexID) :
                  ~C5_Differs(old, ev) =>
                      GetFile(files', ev.path, IndexID) = {old}]_vars

\* a Reindex passed over a file whose modification time moved within the
\* second of the time its row records
C33_Witness ==
    /\ ret.op = "reindex" /\ ret.err = "nil"
    /\ \E r \in Rows(files, IndexID) :
          /\ r.path \in VisitedPaths(fs, Root)
          /\ r.last_scanned < now - 1
          /\ r.mod_time # InfoModTime(fs[r.path])
          /\ Unix(r.mod_time) = Unix(InfoModTime(fs[r.path]))
          /\ r.size = InfoSize(fs[r.path])

\* C34: a call of CompareIndexes or FindDuplicates, whatever it returns,
\* leaves every row of the files table and every row of the indexes table,
\* the statistics in it included, as they were.
C34_ReadOnly ==
    [][(ret'.op \in {"compare", "compareFailed", "duplicates"})
          => (files' = files /\ indexes' = indexes)]_vars

\* a comparison that found something new and something deleted, over
\* indexes whose statistics do not count their rows
C34_Witness ==
    /\ Compared
    /\ ret.result.NewFiles # <<>>
    /\ ret.result.DeletedFiles # <<>>
    /\ indexes[ret.src].total_files # Cardinality(SourceRows)

\* the comparison a size filter states
SizeCompares(operator, size, value) ==
    CASE operator = ">"  -> size > value
      [] operator = ">=" -> size >= value
      [] operator = "<"  -> size < value
      [] operator = "<=" -> size <= value
      [] operator = "="  -> size = value
      [] OTHER           -> FALSE

\* C35: every entry the find command returns under the size filter
\* operator-N, N >= 0, has a size that compares to N as the operator states.
C35_SizeFilter ==
    (ret.op = "findSize" /\ ret.err = "nil") =>
        \A i \in DOMAIN ret.result :
            SizeCompares(ret.operator, ret.result[i].FileEntry.size, ret.value)

\* C36: every row of a file that a run of Index or Reindex writes with a
\* checksum carries the checksum of the bytes the file has during that run.
C36_WrittenChecksumIsCurrent ==
    [][(now' # now /\ ret'.op \in {"index", "reindex"}) =>
          \A r \in Rows(files', IndexID) \ files :
              (r.checksum # NoChecksum /\ ~r.is_directory) =>
                  r.checksum = ChecksumAt(r.path)]_vars

\* what C37 compares of a set of rows: the path, the size, the second of the
\* modification time and the directory flag of each
C37_Stored(rows) ==
    {<<r.path, r.size, Unix(r.mod_time), r.is_directory>> : r \in rows}

\* the rows Index stores for the tree as it is, starting from no rows
C37_FreshScan ==
    Rows(IndexResult(fs, {}, indexes, Root, IndexID, FALSE, now, NoFault).tbl, IndexID)

\* the same machine over a tree in which the file a is empty and has the
\* latest time, so that a directory made in its place can have its size and
\* its second
ReplacedInit ==
    /\ fs = [InitFs EXCEPT ![pA] = File(<<>>, MaxMTime)]
    /\ files = {}
    /\ indexes = [i \in {IndexID} |-> Index0(Root)]
    /\ now = 1
    /\ fsOps = 0
    /\ faults = 0
    /\ budget = Budget(SmallRuns, MaxFsOps, SmallFaults)
    /\ run = NoRun
    /\ ret = Ret("none", "nil", NoPath, NoStats, FALSE)

ReplacedSpec == ReplacedInit /\ [][Next]_vars

\* C37: after a Reindex that returned success the rows of the index have
\* the paths, sizes, seconds of modification time and directory flags of the
\* rows Index would store for the same tree starting from an empty store.
C37_ReconcileEqualsScan ==
    [][ReindexReturnsNil =>
          C37_Stored(Rows(files', IndexID)) = C37_Stored(C37_FreshScan)]_vars

\* C38: a run of Index leaves every row whose path is no longer on disk as
\* it was, and removes the row of no path; when it returns success the
\* statistics of the index count those rows too.  No step but a run of
\* Reindex removes the row of a path.
C38_IndexNeverDeletes ==
    [][IF now' # now /\ ret'.op = "index"
       THEN     /\ \A r \in Rows(files, IndexID) :
                      fs[r.path].kind = "absent" => r \in files'
                /\ PathsOf(Rows(files, IndexID)) \subseteq PathsOf(Rows(files', IndexID))
                /\ ret'.err = "nil" =>
                      /\ indexes'[IndexID].total_files = Cardinality(Rows(files', IndexID))
                      /\ indexes'[IndexID].total_size =
                            SumSize({r \in Rows(files', IndexID) : ~r.is_directory})
       ELSE \/ files' = files
            \/ ret'.op = "reindex"
            \/ PathsOf(Rows(files, IndexID)) \subseteq PathsOf(Rows(files', IndexID))]_vars

\* Index returned success over a tree from which a file with a row was
\* removed: the row is as the run before left it, and is counted
C38_Witness ==
    /\ ret.op = "index" /\ ret.err = "nil"
    /\ \E r \in Rows(files, IndexID) :
          /\ fs[r.path].kind = "absent" /\ ~r.is_directory /\ r.size > 0
          /\ r.last_scanned < now - 1
    /\ \E r \in Rows(files, IndexID) : r.last_scanned = now - 1
    /\ indexes[IndexID].total_files = Cardinality(Rows(files, IndexID))

\* the rows of objects that are on disk and that the walk does not hand to
\* the walk function without an error
C39_Lost ==
    {r \in Rows(files, IndexID) :
        fs[r.path].kind # "absent" /\ r.path \notin VisitedPaths(fs, Root)}

\* C39: when Reindex returns success, the row of every object that is on
\* disk but was not handed to the walk function without an error is gone,
\* and the removed count is the number of rows that are gone.
C39_ErrorPathsAreRemoved ==
    [][ReindexReturnsNil =>
          /\ \A r \in C39_Lost : GetFile(files', r.path, IndexID) = {}
          /\ ret'.stats.removed =
                Cardinality(PathsOf(Rows(files, IndexID)) \ PathsOf(Rows(files', IndexID)))]_vars

\* C39 for the runs of Reindex in which the store rejected no call
C39_ErrorPathsAreRemovedWithoutFaults ==
    [][(ReindexReturnsNil /\ faults' = faults) =>
          /\ \A r \in C39_Lost : GetFile(files', r.path, IndexID) = {}
          /\ ret'.stats.removed =
                Cardinality(PathsOf(Rows(files, IndexID)) \ PathsOf(Rows(files', IndexID)))]_vars

-----------------------------------------------------------------------------
(* Syncer.SyncToIndex.  rsync copies the tree of the source under the       *)
(* target root, which is none of the paths of fs; what the call does after  *)
(* it reads and writes the store only.                                      *)

\* filepath.Join(targetRootPath, relativePath)
Join(root, rel) == IF rel = << <<".">> >> THEN root ELSE root \o rel

\* the entry of the target made from a listed row of the source, with the
\* checksum left out
SyncTargetFileWithoutChecksum(sourceFile, targetIndexID, targetRootPath, t) ==
    FileEntry(Join(targetRootPath, sourceFile.relative_path), sourceFile.relative_path,
              sourceFile.size, sourceFile.mod_time, NoChecksum,
              targetIndexID, t, sourceFile.is_directory)

\* the entry of the target made from a listed row of the source
SyncTargetFile(sourceFile, targetIndexID, targetRootPath, t) ==
    FileEntry(Join(targetRootPath, sourceFile.relative_path), sourceFile.relative_path,
              sourceFile.size, sourceFile.mod_time, sourceFile.checksum,
              targetIndexID, t, sourceFile.is_directory)

RECURSIVE SyncUpserts(_, _, _, _, _, _, _)
\* the loop over the listed rows of the source from the i-th on: the table
\* after it, and whether the upsert numbered failAt was rejected
SyncUpserts(tbl, sourceFiles, i, targetIndexID, targetRootPath, t, failAt) ==
    IF i > Len(sourceFiles) THEN [tbl |-> tbl, failed |-> FALSE]
    ELSE IF i = failAt THEN [tbl |-> tbl, failed |-> TRUE]
    ELSE SyncUpserts(UpsertFile(tbl, SyncTargetFile(sourceFiles[i], targetIndexID,
                                                    targetRootPath, t)),
                     sourceFiles, i + 1, targetIndexID, targetRootPath, t, failAt)

SyncToRet(op, err, src, tgt, root, dryRun) ==
    [op |-> op, err |-> err, src |-> src, tgt |-> tgt, root |-> root,
     dryRun |-> dryRun]

\* a call of Syncer.SyncToIndex.  failure names what goes wrong, if anything:
\* a listing of CompareIndexes, rsync, the listing of the source, the upsert
\* numbered failAt, or the update of the statistics.  deleteExtra only adds
\* --delete to the arguments of rsync and is left out
SyncToIndex(sourceIndexID, targetIndexID, targetRootPath, dryRun, failure, failAt) ==
    LET sourceFiles == ListFiles(files, sourceIndexID)
        upserts == SyncUpserts(files, sourceFiles, 1, targetIndexID, targetRootPath,
                               now, IF failure = "upsert" THEN failAt ELSE 0)
        done(err) == ret' = SyncToRet("sync", err, sourceIndexID, targetIndexID,
                                      targetRootPath, dryRun)
    IN  /\ failure = "upsert" <=> failAt \in 1..Len(sourceFiles)
        /\ dryRun => failure \in {"none", "compare"}
        /\ IF GetIndex(indexes, sourceIndexID) = {}
           THEN done("failed to get source index") /\ UNCHANGED <<files, indexes>>
           ELSE IF failure = "compare"
           THEN done("failed to list files") /\ UNCHANGED <<files, indexes>>
           ELSE IF dryRun
           THEN done("nil") /\ UNCHANGED <<files, indexes>>
           ELSE IF failure = "rsync"
           THEN done("rsync failed") /\ UNCHANGED <<files, indexes>>
           ELSE IF failure = "list"
           THEN done("failed to list source files") /\ UNCHANGED <<files, indexes>>
           ELSE IF upserts.failed
           THEN done("failed to sync file") /\ files' = upserts.tbl
                /\ UNCHANGED indexes
           ELSE IF failure = "stats"
           THEN done("failed to update target index stats") /\ files' = upserts.tbl
                /\ UNCHANGED indexes
           ELSE /\ done("nil")
                /\ files' = upserts.tbl
                /\ indexes' = UpdateIndexStats(indexes, upserts.tbl, targetIndexID, now)
        /\ UNCHANGED <<fs, now, fsOps, faults, budget, run>>

SyncToNext ==
    \E targetRootPath \in {TargetRoot, Root}, dryRun \in BOOLEAN,
       failure \in {"none", "compare", "rsync", "list", "upsert", "stats"},
       failAt \in 0..2 :
          SyncToIndex(IndexID, TargetID, targetRootPath, dryRun, failure, failAt)

\* two indexes with any rows at two relative paths, fewer than in SyncInit
SyncToInit ==
    /\ fs = InitFs
    /\ files \in {RowsOf(Root, IndexID, nA, sa) \cup RowsOf(Root, IndexID, nD, sd)
                    \cup RowsOf(TargetRoot, TargetID, nA, ta)
                    \cup RowsOf(TargetRoot, TargetID, nD, td) :
                  sa \in {e \in EntryChoices : e.mt \in {0, MaxMTime}},
                  sd \in {e \in FewEntryChoices : e.sum = IF e.kind = "file"
                                                          THEN Sha256Hex(<<1>>)
                                                          ELSE NoChecksum},
                  ta \in FewEntryChoices,
                  td \in {e \in FewEntryChoices : e.sum = NoChecksum /\ e.kind # "dir"}}
    /\ indexes = [i \in {IndexID, TargetID} |->
                    Index0(IF i = IndexID THEN Root ELSE TargetRoot)]
    /\ now = 1
    /\ fsOps = 0
    /\ faults = 0
    /\ budget = Budget(0, 0, 0)
    /\ run = NoRun
    /\ ret = SyncToRet("none", "nil", IndexID, TargetID, TargetRoot, TRUE)

SyncToSpec == SyncToInit /\ [][SyncToNext]_vars

\* C40: after a call of SyncToIndex that was no dry run, was given the root
\* of the target index and returned success, CompareIndexes of the source
\* and the target has no new and no updated file, and every row of the
\* source has a row of the target with its relative path, size,
\* modification time and checksum.  A dry run changes no row of the files
\* table and no row of the indexes table.
C40_SyncedOrUntouched ==
    [][ret'.op = "sync" =>
          /\ ret'.dryRun => (files' = files /\ indexes' = indexes)
          /\ (~ret'.dryRun /\ ret'.err = "nil"
              /\ ret'.root = indexes[ret'.tgt].root_path) =>
                /\ CompareIndexes(files', ret'.src, ret'.tgt).NewFiles = <<>>
                /\ CompareIndexes(files', ret'.src, ret'.tgt).UpdatedFiles = <<>>
                /\ \A s \in Rows(files', ret'.src) :
                      \E t \in Rows(files', ret'.tgt) :
                          /\ t.relative_path = s.relative_path
                          /\ t.size = s.size
                          /\ t.mod_time = s.mod_time
                          /\ t.checksum = s.checksum]_vars

\* a sync to the root of the target returned success: a row of the target
\* was written with a checksum, and a row of the target that the source
\* does not have is as it was
C40_Witness ==
    /\ ret.op = "sync" /\ ret.err = "nil" /\ ~ret.dryRun
    /\ ret.root = indexes[ret.tgt].root_path
    /\ \E t \in Rows(files, ret.tgt) :
          t.last_scanned = now /\ t.checksum # NoChecksum /\ ~t.is_directory
    /\ \E t \in Rows(files, ret.tgt) :
          /\ t.last_scanned # now
          /\ t.relative_path \notin RelsOf(Rows(files, ret.src))

====
